---- MODULE Spec2Model ----
(***************************************************************************)
(* Model of the Cord -> Liveblocks migration handler                       *)
(* (server/src/liveblocks/LiveblocksMigrationHandler.ts and its helpers).  *)
(*                                                                         *)
(* The destination service (Liveblocks) is a set of rooms, threads and     *)
(* comments; every call of the handler to it is one atomic step that may   *)
(* succeed or fail.  The handler's promises (Promise.all) are interleaved  *)
(* at the granularity of those calls.                                      *)
(***************************************************************************)
EXTENDS Integers, Sequences, FiniteSets, TLC

\* ------------------------------------------------------------------ bounds
\* Number of invocations of the entry point (POST /migrate-to-liveblocks).
MaxRuns == 2
\* Number of destination calls that may fail over a whole behaviour.
MaxFailures == 1

\* Largest number of items and largest width the batch executor is called with.
MaxItems == 7
MaxWidth == 3
\* Number of operations of one executor call that may fail.
MaxFailing == 2
\* Longest array in a metadata value and longest list of pairs to add.
MaxElements == 3
MaxAdded == 2
\* Largest number of pages of the room listing and of rooms in a page.
MaxPages == 3
MaxPageRooms == 2
MaxReactions == 3

Runs == 1..MaxRuns

\* ------------------------------------------------------------ source data
\* A location value is a string or a number: <<type, text>>.
S(x) == <<"string", x>>
N(x) == <<"number", x>>
\* value.toString() of getRoomParams
toString(v) == S(v[2])

\* A location is the key order of the JS object: a sequence of <<key, value>>.
LocA   == << <<"page", S("a")>> >>
LocAB  == << <<"page", S("a")>>, <<"sec", S("b")>> >>
LocC   == << <<"page", S("c")>> >>
LocN   == << <<"page", N("1")>> >>
LocBA  == << <<"sec", S("b")>>, <<"page", S("a")>> >>

Org(i, e) == [id |-> i, externalID |-> e]
User(i, e) == [id |-> i, externalID |-> e]
Thread(i, o, ts, loc) == [id |-> i, orgID |-> o, createdTimestamp |-> ts, location |-> loc]
Message(i, t, src, ts) == [id |-> i, threadID |-> t, sourceID |-> src, timestamp |-> ts]
Email(i, u) == [id |-> i, userID |-> u]

BaseOrgs == << Org("o1", "x1"), Org("o2", "") >>
BaseUsers == << User("u1", "e1"), User("u2", "e2") >>
BaseEmails == << Email("n1", "u2") >>

CordData(threads, messages) ==
  [orgs |-> BaseOrgs, users |-> BaseUsers, emailNotifications |-> BaseEmails,
   threads |-> threads, messages |-> messages]

\* One thread of three messages, all authors resolvable.
ScenarioOne ==
  CordData(<< Thread("T1", "o1", 1, LocA) >>,
           << Message("m1", "T1", "u1", 1), Message("m2", "T1", "u2", 2),
              Message("m3", "T1", "n1", 3) >>)

\* Two threads whose locations are nested: {page:a}, without messages, and
\* {page:a, sec:b}.
ScenarioNested ==
  CordData(<< Thread("T1", "o1", 1, LocA), Thread("T2", "o1", 2, LocAB) >>,
           << Message("m2", "T2", "u1", 2) >>)

\* Authors that do not resolve, a thread without messages, a thread whose
\* organization has no external id, a thread whose latest message has no
\* resolvable author.
ScenarioAuthors ==
  CordData(<< Thread("T1", "o1", 1, LocA), Thread("T2", "o1", 2, LocA),
              Thread("T3", "o2", 3, LocC), Thread("T4", "o1", 4, LocA) >>,
           << Message("m1", "T1", "u1", 2), Message("m2", "T1", "u9", 1),
              Message("m3", "T1", "", 3),
              Message("m4", "T3", "u1", 1),
              Message("m5", "T4", "u1", 1), Message("m6", "T4", "u9", 2) >>)

\* A location with a number value.
ScenarioNumber ==
  CordData(<< Thread("T1", "o1", 1, LocN), Thread("T2", "o1", 2, LocC) >>,
           << Message("m1", "T1", "u1", 1), Message("m2", "T2", "u1", 1) >>)

\* Two threads, without messages, at locations with the same entries in a
\* different key order.
ScenarioReordered ==
  CordData(<< Thread("T1", "o1", 1, LocAB), Thread("T2", "o1", 2, LocBA) >>, << >>)

\* Two threads of one message each at the same location.
ScenarioShared ==
  CordData(<< Thread("T1", "o1", 1, LocA), Thread("T2", "o1", 2, LocA) >>,
           << Message("m1", "T1", "u1", 1), Message("m2", "T2", "u1", 1) >>)

Scenarios ==
  {ScenarioOne, ScenarioNested, ScenarioAuthors, ScenarioNumber, ScenarioReordered,
   ScenarioShared}

\* null / undefined results are the empty tuple, a value x is <<x>>.
None == <<>>
Some(x) == <<x>>
\* undefined as the value read at a missing key of a location
UndefinedValue == <<"undefined", "">>

\* ---------------------------------------------------------------- helpers
Range(s) == {s[i] : i \in DOMAIN s}

RECURSIVE SelectSeqBy(_, _)
\* Array.prototype.filter with the predicate given as the set of kept elements.
SelectSeqBy(s, keep) ==
  IF s = <<>> THEN <<>>
  ELSE (IF Head(s) \in keep THEN <<Head(s)>> ELSE <<>>) \o SelectSeqBy(Tail(s), keep)

\* Array.prototype.find: the first element in `keep`, or None.
Find(s, keep) ==
  LET f == SelectSeqBy(s, keep) IN IF f = <<>> THEN None ELSE Some(f[1])

RECURSIVE InsertDesc(_, _)
\* Insert x into a sequence sorted by timestamp descending, after its equals
\* (Array.prototype.sort is stable).
InsertDesc(x, s) ==
  IF s = <<>> THEN <<x>>
  ELSE IF x.timestamp > Head(s).timestamp THEN <<x>> \o s
  ELSE <<Head(s)>> \o InsertDesc(x, Tail(s))

RECURSIVE SortDesc(_)
\* messages.sort((a, b) => b.timestamp - a.timestamp)
SortDesc(s) ==
  IF s = <<>> THEN <<>>
  ELSE InsertDesc(s[Len(s)], SortDesc(SubSeq(s, 1, Len(s) - 1)))


\* ------------------------------------------------- utils/helpers.ts (pure)
\* A getExternalUserId that gives the source id back when no user is found:
\* the fault its return of null excludes.
getExternalUserIdOrSource(cordData, cordUserId) ==
  IF cordUserId = "" THEN ""
  ELSE LET direct == {u \in Range(cordData.users) : u.id = cordUserId}
       IN IF direct = {} THEN cordUserId ELSE (CHOOSE u \in direct : TRUE).externalID

\* getExternalUserId: "" stands for null.
getExternalUserId(cordData, cordUserId) ==
  IF cordUserId = "" THEN ""
  ELSE LET direct == Find(cordData.users, {u \in Range(cordData.users) : u.id = cordUserId})
           email  == Find(cordData.emailNotifications,
                          {n \in Range(cordData.emailNotifications) :
                             cordUserId \in {n.id, n.userID}})
           viaEmail == IF email = None THEN None
                       ELSE Find(cordData.users,
                                 {u \in Range(cordData.users) : u.id = email[1].userID})
           user == IF direct # None THEN direct ELSE viaEmail
       IN IF user = None THEN "" ELSE user[1].externalID

\* toCreateCommentData: None stands for null.
toCreateCommentData(message, cordData) ==
  LET userId == getExternalUserId(cordData, message.sourceID)
  IN IF userId = "" THEN None
     ELSE Some([userId |-> userId, createdAt |-> message.timestamp])

\* JSON.stringify of a location keeps the key order of the object and tells a
\* number from a string: the serialized text is the sequence of its entries.
JSONstringify(location) == location

\* getRoomId: uuid v5 of the serialized location under a fixed namespace,
\* taken as injective on the serialized string.
getRoomId(location) == <<"uuid", JSONstringify(location)>>

\* toThreadData
toThreadData(t) ==
  [threadId |-> t.id, roomId |-> getRoomId(t.location), location |-> t.location]

\* threadsLocations of getCordData
threadsLocations(cordData) ==
  [i \in DOMAIN cordData.threads |-> toThreadData(cordData.threads[i])]

\* A JS object read at a key: the value, or None for undefined.
Keys(location) == {location[i][1] : i \in DOMAIN location}
At(location, key) ==
  IF key \in Keys(location)
  THEN (CHOOSE e \in Range(location) : e[1] = key)[2]
  ELSE UndefinedValue

\* getCordThreadMetadata: the metadata createThread is given; the ledger key
\* messageToCommentPairs is not part of it.
getCordThreadMetadata(cordThread) ==
  [cordThreadId |-> cordThread.id, cordOrgId |-> cordThread.orgID,
   cordCreatedTimestamp |-> cordThread.createdTimestamp,
   location |-> cordThread.location]

\* A JS value is a record with its kind.  A string carries what JSON.parse
\* makes of it: a value, or NotJSON when JSON.parse throws a SyntaxError (as it
\* does on the empty string).
Undefined == [kind |-> "undefined"]
NotJSON == [kind |-> "invalid"]
JSONnull == [kind |-> "null"]
JSONnumber(text) == [kind |-> "number", text |-> text]
JSONstring(parsed) == [kind |-> "string", parsed |-> parsed]
Array(items) == [kind |-> "array", items |-> items]
JSONarray(items) == JSONstring(Array(items))

\* !value for the values that a parsed element can be
Falsy(value) ==
  \/ value.kind \in {"undefined", "null"}
  \/ value.kind = "number" /\ value.text = "0"

\* A parsed JSON value that is an object with the given fields.
Object(fields) == [kind |-> "object", fields |-> fields]
Pair(m, c) == [cordMessageId |-> m, liveblocksCommentId |-> c]

\* JSON.stringify of a list of pairs
JSONstringifyPairs(pairs) == JSONarray([i \in DOMAIN pairs |-> Object(pairs[i])])

RECURSIVE parseThreadCommentMetadata(_)
\* parseThreadCommentMetadata: null for a falsy value; a string is parsed
\* and the result examined in its place, null when JSON.parse throws; null
\* for what is not an object; an array is an object without the two keys.
parseThreadCommentMetadata(value) ==
  IF Falsy(value) THEN None
  ELSE IF value.kind = "string"
       THEN IF value.parsed = NotJSON THEN None
            ELSE parseThreadCommentMetadata(value.parsed)
  ELSE IF value.kind \notin {"object", "array"} THEN None
  ELSE IF value.kind = "array" THEN None
  ELSE IF ~({"cordMessageId", "liveblocksCommentId"} \subseteq DOMAIN value.fields) THEN None
  ELSE Some(value.fields)

RECURSIVE parsePairsStopping(_)
\* A loop that ends at the first element that is not a pair instead of going
\* on to the next one.
parsePairsStopping(items) ==
  IF items = <<>> THEN <<>>
  ELSE IF parseThreadCommentMetadata(Head(items)) = None THEN <<>>
  ELSE parseThreadCommentMetadata(Head(items)) \o parsePairsStopping(Tail(items))

RECURSIVE parsePairs(_)
\* the loop of parseThreadCommentsMetadata over the parsed array
parsePairs(items) ==
  IF items = <<>> THEN <<>>
  ELSE parseThreadCommentMetadata(Head(items)) \o parsePairs(Tail(items))

\* parseThreadCommentsMetadata: the empty list for undefined, for what is
\* not a string, when JSON.parse throws and for what is not an array.
parseThreadCommentsMetadata(value) ==
  IF value.kind # "string" THEN <<>>
  ELSE IF value.parsed = NotJSON THEN <<>>
  ELSE IF value.parsed.kind # "array" THEN <<>>
  ELSE parsePairs(value.parsed.items)

\* ---------------------------------------- LiveblocksMigrationHandler.ts (pure)
\* getRoomParams
getRoomParams(cordOrg, location) ==
  [defaultAccesses |-> {},
   groupsAccesses |-> {<<"client", cordOrg.id>>, <<"internal">>},
   metadata |-> [k \in Keys(location) |-> toString(At(location, k))]]

RECURSIVE roomsMapOf(_)
\* getRoomsFromCordData: the entries of roomsMap in insertion order.
roomsMapOf(tls) ==
  IF tls = <<>> THEN <<>>
  ELSE LET before == roomsMapOf(SubSeq(tls, 1, Len(tls) - 1))
           tl == tls[Len(tls)]
           has == \E i \in DOMAIN before : before[i].roomId = tl.roomId
       IN IF ~has
          THEN Append(before, [roomId |-> tl.roomId, location |-> tl.location,
                               threadIds |-> <<tl.threadId>>])
          ELSE [i \in DOMAIN before |->
                  IF before[i].roomId = tl.roomId
                     /\ tl.threadId \notin Range(before[i].threadIds)
                  THEN [before[i] EXCEPT !.threadIds = Append(@, tl.threadId)]
                  ELSE before[i]]

getRoomsFromCordData(cordData) == roomsMapOf(threadsLocations(cordData))

\* A createOrUpdateRooms that takes the first organization of the source for
\* every group: the fault the lookup by the threads' orgID excludes.
GroupOrgOfNoThread(cordData, group) == Some(cordData.orgs[1])

\* The organization createOrUpdateRooms resolves for a group: the first
\* non-empty orgID of the group's threads, looked up in cordData.orgs.
GroupOrg(cordData, group) ==
  LET threads == SelectSeq(cordData.threads, LAMBDA t : t.id \in Range(group.threadIds))
      threadsOrgIds == SelectSeq([i \in DOMAIN threads |-> threads[i].orgID],
                                 LAMBDA o : o # "")
  IN IF threadsOrgIds = <<>> THEN None
     ELSE Find(cordData.orgs, {o \in Range(cordData.orgs) : o.id = threadsOrgIds[1]})

\* A merge that appends the processed pairs without dropping the pairs of the
\* same messages from those read: the fault the filter of MergePairs excludes.
MergePairsAppending(existingPairs, commentsMetadata) == existingPairs \o commentsMetadata

\* A merge that puts the processed pairs before the pairs kept.
MergePairsNewFirst(existingPairs, commentsMetadata) ==
  commentsMetadata
    \o SelectSeq(existingPairs,
                 LAMBDA p : ~\E i \in DOMAIN commentsMetadata :
                               commentsMetadata[i].cordMessageId = p.cordMessageId)

\* The merge of addCommmetsMetadataToThread: the pairs read from the thread
\* without those of the processed messages, then the processed pairs.
MergePairs(existingPairs, commentsMetadata) ==
  SelectSeq(existingPairs,
            LAMBDA p : ~\E i \in DOMAIN commentsMetadata :
                          commentsMetadata[i].cordMessageId = p.cordMessageId)
    \o commentsMetadata

\* isSameLocation of createNewThreads: every entry of the room's metadata is
\* strictly equal to the thread location's value at that key.
isSameLocation(roomLocation, threadLocation) ==
  \A key \in DOMAIN roomLocation : At(threadLocation, key) = roomLocation[key]


\* ------------------------------------------------------------------ state
VARIABLES
  cordData,      \* the source records getCordData returns (the same in every run)
  rooms,         \* destination: room id -> the params the room was written with
  threads,       \* destination: thread id -> [metadata, messageToCommentPairs]
  comments,      \* destination: the comment ids <<thread id, source message id, n>>
  phase,         \* per run: position of LiveblocksMigrationHandler
  existingRooms, \* per run: the ids of the rooms getLiveblocksData listed
  groups,        \* per run: room id -> the task of createOrUpdateRooms for that group
  passes,        \* per run: <<origin, room id>> -> the processRoom of that result entry
  failures,      \* number of destination calls that have failed
  overlapped,    \* a run was started while another run was in progress
  ended,         \* per run: the destination counts when the run responded
  responses,     \* per run: the status codes of the responses sent (res.status)
  fetched,       \* per run: which of getCordData, getLiveblocksData have returned
  items,         \* throttledPromises: the array the caller passes (split splices it)
  batchSize,     \* throttledPromises: the width
  delay,         \* throttledPromises: the delay between batches, in ms
  batches,       \* throttledPromises: the result of split
  batchNumber,   \* throttledPromises: the batch asyncForEach is at (0: not called)
  promises,      \* throttledPromises: the promises of the batch in progress
  sleeping,      \* throttledPromises: the executor is in delayMS
  output,        \* throttledPromises: the results pushed so far
  promise,       \* throttledPromises: the promise returned to the caller
  started,       \* throttledPromises: the calls of asyncFunction made so far
  thrown,        \* throttledPromises: a call of asyncFunction has thrown
  existingValue, \* addCommmetsMetadataToThread: the metadata value read from the thread
  commentsMetadata,      \* addCommmetsMetadataToThread: the pairs to add
  existingPairs,         \* parseThreadCommentsMetadata: the list returned
  commentsPairsMetadata, \* addCommmetsMetadataToThread: the merged list
  listing,       \* the destination's rooms as getRooms pages them
  page,          \* paginatedCallback: the number of pages fetched so far
  nextCursor,    \* paginatedCallback: the cursor of the last response
  requests,      \* getLiveblocksData: startingAfter of the getRooms calls made
  awaiting,      \* paginatedCallback: a callback is awaited
  listedRooms,   \* getLiveblocksData: the rooms pushed so far
  messageReactions, \* source: the reactions MessageReactionEntity holds for the message
  at,            \* createNewComment: the call it awaits ("returned": none)
  comment,       \* createNewComment: the comment liveblocks.createComment returned
  reactions,     \* addReactionsToComment: the reactions findAll gave
  reactionCalls, \* addReactionsToComment: the reactions addCommentReaction is called for
  inFlight,      \* addReactionsToComment: the addCommentReaction calls not settled
  added,         \* destination: the reactions added to the comment
  returnValue    \* createNewComment: the value returned

\* the state of the batch executor
exec == <<items, batchSize, delay, batches, batchNumber, promises, sleeping, output, promise,
          started, thrown>>

\* the state of the ledger functions and of the listing loop
ledger == <<existingValue, commentsMetadata, existingPairs, commentsPairsMetadata>>
pagination == <<listing, page, nextCursor, requests, awaiting, listedRooms>>

\* the state of createNewComment from its createComment call on
reacting == <<messageReactions, at, comment, reactions, reactionCalls, inFlight, added, returnValue>>

vars == <<cordData, rooms, threads, comments, phase, existingRooms, groups, passes,
          failures, overlapped, ended, responses, fetched, exec, ledger, pagination, reacting>>

dest == <<rooms, threads, comments>>

Empty == <<>>   \* the function with the empty domain

CanFail == failures < MaxFailures

\* destination thread ids are opaque: <<room id, source thread id, n>>
ThreadsOfRoom(roomId) == {t \in DOMAIN threads : t[1] = roomId}
NewThreadId(roomId, cordThreadId) ==
  <<roomId, cordThreadId,
    1 + Cardinality({t \in DOMAIN threads : t[1] = roomId /\ t[2] = cordThreadId})>>
\* destination comment ids are opaque: <<thread id, source message id, n>>
NewCommentId(threadId, cordMessageId) ==
  <<threadId, cordMessageId,
    1 + Cardinality({c \in comments : c[1] = threadId /\ c[2] = cordMessageId})>>

Counts == [rooms |-> Cardinality(DOMAIN rooms), threads |-> Cardinality(DOMAIN threads),
           comments |-> Cardinality(comments)]

\* The defaults of throttledPromises: batchSize = 10, delay = 50.
DefaultBatchSize == 10
DefaultDelay == 50

\* The promise throttledPromises returns: not there before the call, then
\* pending, then resolved with a value or rejected with a reason.
Promise(state, value, reason) == [state |-> state, value |-> value, reason |-> reason]
NoPromise == Promise("none", <<>>, None)

\* throttledPromises has not been called with the given arguments.
NotCalled(arr, n, d) ==
  /\ items = arr
  /\ batchSize = n
  /\ delay = d
  /\ batches = <<>>
  /\ batchNumber = 0
  /\ promises = <<>>
  /\ sleeping = FALSE
  /\ output = <<>>
  /\ promise = NoPromise
  /\ started = {}
  /\ thrown = FALSE

\* No ledger function has been called.
NotParsed ==
  /\ existingValue = Undefined
  /\ commentsMetadata = <<>>
  /\ existingPairs = None
  /\ commentsPairsMetadata = None

\* paginatedCallback has not been called, the destination paging its rooms
\* as given.
NotListed(pages) ==
  /\ listing = pages
  /\ page = 0
  /\ nextCursor = None
  /\ requests = <<>>
  /\ awaiting = FALSE
  /\ listedRooms = <<>>

\* createNewComment has not been called.
NotReacting(found) ==
  /\ messageReactions = found
  /\ at = "returned"
  /\ comment = None
  /\ reactions = <<>>
  /\ reactionCalls = <<>>
  /\ inFlight = {}
  /\ added = {}
  /\ returnValue = None

Init ==
  /\ NotCalled(<<>>, DefaultBatchSize, DefaultDelay)
  /\ NotParsed
  /\ NotListed(<<>>)
  /\ NotReacting(<<>>)
  /\ fetched = [r \in Runs |-> {}]
  /\ cordData \in Scenarios
  /\ rooms = Empty
  /\ threads = Empty
  /\ comments = {}
  /\ phase = [r \in Runs |-> "idle"]
  /\ existingRooms = [r \in Runs |-> {}]
  /\ groups = [r \in Runs |-> Empty]
  /\ passes = [r \in Runs |-> Empty]
  /\ failures = 0
  /\ overlapped = FALSE
  /\ ended = [r \in Runs |-> None]
  /\ responses = [r \in Runs |-> <<>>]

\* ------------------------------------------------------- the entry point
\* LiveblocksMigrationHandler is invoked: getCordData and getLiveblocksData start.
\* The entry point is invoked again once the previous invocation has answered
\* and the calls it started have settled.
Settled(q) ==
  /\ phase[q] \in {"done", "failed"}
  /\ \A g \in DOMAIN groups[q] : groups[q][g].pc = "done"

LiveblocksMigrationHandler ==
  \E r \in Runs :
      /\ phase[r] = "idle"
      /\ \A q \in Runs : q < r => Settled(q)
      /\ phase' = [phase EXCEPT ![r] = "fetch"]
      /\ UNCHANGED overlapped
      /\ UNCHANGED <<cordData, dest, existingRooms, groups, passes, failures, ended, responses, fetched, exec, ledger, pagination, reacting>>

\* The entry point is invoked while an earlier invocation is still at work:
\* nothing in the handler prevents it.
LiveblocksMigrationHandlerOverlapping ==
  \E r \in Runs :
      /\ phase[r] = "idle"
      /\ \A q \in Runs : q < r => phase[q] # "idle"
      /\ \E q \in Runs : q < r /\ ~Settled(q)
      /\ phase' = [phase EXCEPT ![r] = "fetch"]
      /\ overlapped' = TRUE
      /\ UNCHANGED <<cordData, dest, existingRooms, groups, passes, failures, ended, responses, fetched, exec, ledger, pagination, reacting>>

\* The task createOrUpdateRooms starts for one entry of getRoomsFromCordData,
\* up to its first call: the group is skipped without an organization that
\* has an external id; the update comes first when the room is listed.
GroupTask(group, existing) ==
  LET org == GroupOrg(cordData, group)
      skip == IF org = None THEN TRUE ELSE org[1].externalID = ""
  IN [params  |-> IF skip THEN None ELSE Some(getRoomParams(org[1], group.location)),
      existed |-> group.roomId \in existing,
      pc      |-> IF skip THEN "done"
                  ELSE IF group.roomId \in existing THEN "update" ELSE "create",
      issued  |-> <<>>,
      conflict |-> "no",
      updated |-> None,
      created |-> None]

\* createOrUpdateRooms up to the first call of every group
StartGroups(existing) ==
  LET gs == getRoomsFromCordData(cordData)
  IN [g \in {gs[i].roomId : i \in DOMAIN gs} |->
        GroupTask(CHOOSE x \in Range(gs) : x.roomId = g, existing)]

\* The Promise.all of getCordData and getLiveblocksData resolves when both
\* have returned: createOrUpdateRooms then starts with the rooms listed.
Returned(r, name, existing) ==
  /\ fetched' = [fetched EXCEPT ![r] = @ \cup {name}]
  /\ IF fetched[r] \cup {name} = {"getCordData", "getLiveblocksData"}
     THEN /\ phase' = [phase EXCEPT ![r] = "rooms"]
          /\ groups' = [groups EXCEPT ![r] = StartGroups(existing)]
     ELSE UNCHANGED <<phase, groups>>

\* getCordData returns the source records (the reads of the source succeed).
getCordData ==
  \E r \in Runs :
      /\ phase[r] = "fetch"
      /\ "getCordData" \notin fetched[r]
      /\ Returned(r, "getCordData", existingRooms[r])
      /\ UNCHANGED <<cordData, dest, existingRooms, passes, failures, overlapped, ended,
                     responses, exec, ledger, pagination, reacting>>

\* A handler that awaits getLiveblocksData alone before createOrUpdateRooms.
getLiveblocksDataAlone ==
  \E r \in Runs :
      /\ phase[r] = "fetch"
      /\ "getLiveblocksData" \notin fetched[r]
      /\ \E ok \in BOOLEAN :
           /\ ~ok => CanFail
           /\ failures' = IF ok THEN failures ELSE failures + 1
           /\ LET existing == IF ok THEN DOMAIN rooms ELSE {}
              IN /\ existingRooms' = [existingRooms EXCEPT ![r] = existing]
                 /\ fetched' = [fetched EXCEPT ![r] = @ \cup {"getLiveblocksData"}]
                 /\ phase' = [phase EXCEPT ![r] = "rooms"]
                 /\ groups' = [groups EXCEPT ![r] = StartGroups(existing)]
      /\ UNCHANGED <<cordData, dest, passes, overlapped, ended, responses, exec, ledger,
                     pagination, reacting>>

\* getLiveblocksData: the listing of the destination rooms ends; a failed
\* page request ends the listing with the rooms fetched so far (here: none).
getLiveblocksData ==
  \E r \in Runs :
      /\ phase[r] = "fetch"
      /\ "getLiveblocksData" \notin fetched[r]
      /\ \E ok \in BOOLEAN :
           /\ ~ok => CanFail
           /\ failures' = IF ok THEN failures ELSE failures + 1
           /\ LET existing == IF ok THEN DOMAIN rooms ELSE {}
              IN /\ existingRooms' = [existingRooms EXCEPT ![r] = existing]
                 /\ Returned(r, "getLiveblocksData", existing)
      /\ UNCHANGED <<cordData, dest, passes, overlapped, ended, responses, exec, ledger,
                     pagination, reacting>>


\* ------------------------------------------------------ createOrUpdateRooms
\* The tasks of a run's Promise.all keep running after the handler has
\* answered with a failure: a rejected Promise.all cancels nothing.
RoomsPhase(r) == phase[r] \in {"rooms", "failed"}

SetGroup(r, g, task) == groups' = [groups EXCEPT ![r][g] = task]

\* toRoomWithThreads: the room with the threads getThreads returns, or with no
\* threads when getThreads fails.
RoomWithThreads(roomId, ok) ==
  [id |-> roomId,
   metadata |-> rooms[roomId].metadata,
   threads |-> IF ok THEN [t \in ThreadsOfRoom(roomId) |-> threads[t]] ELSE Empty]

\* updateRoom, the call liveblocks.updateRoom of an existing room
updateRoom ==
  \E r \in Runs : \E g \in DOMAIN groups[r] :
      /\ RoomsPhase(r)
      /\ g \in DOMAIN groups[r]
      /\ groups[r][g].pc = "update"
      /\ LET task == groups[r][g]
             sent == [task EXCEPT !.issued = Append(@, "update")]
         IN \E ok \in BOOLEAN :
              /\ ok => g \in DOMAIN rooms
              /\ ~ok => CanFail
              /\ failures' = IF ok THEN failures ELSE failures + 1
              /\ rooms' = IF ok THEN [rooms EXCEPT ![g] = task.params[1]] ELSE rooms
              /\ SetGroup(r, g, [sent EXCEPT !.pc = IF ok THEN "updateThreads" ELSE "create"])
      /\ UNCHANGED <<cordData, threads, comments, phase, existingRooms, passes, overlapped,
                     ended, responses, fetched, exec, ledger, pagination, reacting>>

\* createRoom, the call liveblocks.createRoom: 409 when the room exists
createRoom ==
  \E r \in Runs : \E g \in DOMAIN groups[r] :
      /\ RoomsPhase(r)
      /\ g \in DOMAIN groups[r]
      /\ groups[r][g].pc = "create"
      /\ LET task == groups[r][g]
             sent == [task EXCEPT !.issued = Append(@, "create")]
         IN \/ /\ g \notin DOMAIN rooms
               /\ rooms' = (g :> task.params[1]) @@ rooms
               /\ SetGroup(r, g, [sent EXCEPT !.pc = "createThreads"])
               /\ UNCHANGED failures
            \/ /\ g \in DOMAIN rooms
               /\ SetGroup(r, g, [sent EXCEPT !.pc = "conflict", !.conflict = "409"])
               /\ UNCHANGED <<rooms, failures>>
            \/ /\ CanFail
               /\ failures' = failures + 1
               /\ SetGroup(r, g, [sent EXCEPT !.pc = "done"])
               /\ UNCHANGED rooms
      /\ UNCHANGED <<cordData, threads, comments, phase, existingRooms, passes, overlapped,
                     ended, responses, fetched, exec, ledger, pagination, reacting>>

\* The catch block of LiveblocksMigrationHandler: the first rejection of the
\* Promise.all of createOrUpdateRooms reaches it and it answers 500; a later
\* rejection of the same Promise.all has no effect.
Rejected(r) ==
  IF phase[r] = "rooms" THEN [responses EXCEPT ![r] = Append(@, 500)] ELSE responses

\* A createRoom that treats a 409 as any other error and returns null without
\* updating the room: the fault the 409 branch of createRoom excludes.
createRoomConflictIgnored ==
  \E r \in Runs : \E g \in DOMAIN groups[r] :
      /\ RoomsPhase(r)
      /\ groups[r][g].pc = "conflict"
      /\ SetGroup(r, g, [groups[r][g] EXCEPT !.pc = "done"])
      /\ UNCHANGED <<cordData, dest, phase, existingRooms, passes, failures, overlapped,
                     ended, responses, fetched, exec, ledger, pagination, reacting>>

\* A handler without its catch block: the rejection ends the invocation and
\* no response is sent.
createRoomConflictUncaught ==
  \E r \in Runs : \E g \in DOMAIN groups[r] :
      /\ RoomsPhase(r)
      /\ groups[r][g].pc = "conflict"
      /\ LET task == groups[r][g]
             sent == [task EXCEPT !.issued = Append(@, "update")]
         IN \/ /\ rooms' = [rooms EXCEPT ![g] = task.params[1]]
               /\ SetGroup(r, g, [sent EXCEPT !.pc = "createThreads", !.conflict = "updated"])
               /\ UNCHANGED <<failures, phase>>
            \/ /\ CanFail
               /\ failures' = failures + 1
               /\ SetGroup(r, g, [sent EXCEPT !.pc = "done", !.conflict = "thrown"])
               /\ phase' = [phase EXCEPT ![r] = "failed"]
               /\ UNCHANGED rooms
      /\ UNCHANGED <<cordData, threads, comments, existingRooms, passes, overlapped,
                     ended, responses, fetched, exec, ledger, pagination, reacting>>

\* createRoom after a 409: liveblocks.updateRoom inside the catch block; its
\* error is not caught and rejects the Promise.all of createOrUpdateRooms.
createRoomConflict ==
  \E r \in Runs : \E g \in DOMAIN groups[r] :
      /\ RoomsPhase(r)
      /\ g \in DOMAIN groups[r]
      /\ groups[r][g].pc = "conflict"
      /\ LET task == groups[r][g]
             sent == [task EXCEPT !.issued = Append(@, "update")]
         IN \/ /\ rooms' = [rooms EXCEPT ![g] = task.params[1]]
               /\ SetGroup(r, g, [sent EXCEPT !.pc = "createThreads", !.conflict = "updated"])
               /\ UNCHANGED <<failures, phase, responses, fetched, exec, ledger, pagination, reacting>>
            \/ /\ CanFail
               /\ failures' = failures + 1
               /\ SetGroup(r, g, [sent EXCEPT !.pc = "done", !.conflict = "thrown"])
               /\ phase' = [phase EXCEPT ![r] = "failed"]
               /\ responses' = Rejected(r)
               /\ UNCHANGED rooms
      /\ UNCHANGED <<cordData, threads, comments, existingRooms, passes, overlapped,
                     ended, fetched, exec, ledger, pagination, reacting>>

\* toRoomWithThreads on the room updateRoom or createRoom got back
toRoomWithThreads ==
  \E r \in Runs : \E g \in DOMAIN groups[r] :
      /\ RoomsPhase(r)
      /\ g \in DOMAIN groups[r]
      /\ groups[r][g].pc \in {"updateThreads", "createThreads"}
      /\ LET task == groups[r][g]
         IN \E ok \in BOOLEAN :
              /\ ~ok => CanFail
              /\ failures' = IF ok THEN failures ELSE failures + 1
              /\ SetGroup(r, g,
                   IF task.pc = "updateThreads"
                   THEN [task EXCEPT !.updated = Some(RoomWithThreads(g, ok)), !.pc = "create"]
                   ELSE [task EXCEPT !.created = Some(RoomWithThreads(g, ok)), !.pc = "done"])
      /\ UNCHANGED <<cordData, dest, phase, existingRooms, passes, overlapped, ended, responses, fetched, exec, ledger, pagination, reacting>>

\* The value createOrUpdateRooms returns: [...createdRooms, ...updatedRooms],
\* each entry named by where it comes from.
ResultRooms(r) ==
  {<<"created", g>> : g \in {x \in DOMAIN groups[r] : groups[r][x].created # None}}
    \cup {<<"updated", g>> : g \in {x \in DOMAIN groups[r] : groups[r][x].updated # None}}

ResultRoom(r, k) ==
  IF k[1] = "created" THEN groups[r][k[2]].created[1] ELSE groups[r][k[2]].updated[1]


\* ------------------------------------------------------------- processRoom
Msg(id) == CHOOSE m \in Range(cordData.messages) : m.id = id
CordThread(id) == CHOOSE t \in Range(cordData.threads) : t.id = id
Ids(s) == [i \in DOMAIN s |-> s[i].id]

\* The pair getExistingThreadComment finds for a message in the ledger of the
\* thread object it is given, when the pair has a comment id.
ExistingPair(pairsValue, messageId) ==
  LET pairs == parseThreadCommentsMetadata(pairsValue)
  IN Find(pairs, {p \in Range(pairs) : p.cordMessageId = messageId})

\* A createNewComment that calls createComment whether or not the author of
\* the message resolves: the fault the null check of createNewComment excludes.
AfterLookupAlwaysCreates(messageId) == "create"

\* createNewComment after getExistingThreadComment gave null: the comment is
\* created unless toCreateCommentData is null.
AfterLookup(messageId) ==
  IF toCreateCommentData(Msg(messageId), cordData) = None THEN "settled" ELSE "create"

\* createNewComment up to its first call, for every message of the list
CommentPlan(pairsValue, messageIds) ==
  [m \in Range(messageIds) |->
     IF ExistingPair(pairsValue, m) # None THEN "lookup" ELSE AfterLookup(m)]

\* A createNewThreadWithComments whose filter does not look at the thread of
\* a message: the fault the first half of its filter excludes.
NewThreadMessagesOfAny(cordThreadId) ==
  SortDesc(SelectSeq(cordData.messages, LAMBDA m : m.sourceID # ""))

\* The messages createNewThreadWithComments takes for a new thread: those of
\* the thread with a sourceID, sorted by timestamp, latest first.
NewThreadMessages(cordThreadId) ==
  SortDesc(SelectSeq(cordData.messages,
                     LAMBDA m : m.threadID = cordThreadId /\ m.sourceID # ""))

\* The messages fixExistingThreadsMissingComments takes for an existing thread
ExistingThreadMessages(cordThreadId) ==
  SelectSeq(cordData.messages, LAMBDA m : m.threadID = cordThreadId)

\* A createNewThreadWithComments that calls createThread whether or not
\* toCreateCommentData gave a comment for the first message: the fault the
\* check of threadComment excludes.
NewThreadTaskUnchecked(cordThreadId) ==
  LET cordMessages == NewThreadMessages(cordThreadId)
  IN [cordThreadId |-> cordThreadId,
      stage     |-> IF cordMessages = <<>> THEN "done" ELSE "create",
      thread    |-> None,
      error     |-> None,
      pairsRead |-> Undefined,
      first     |-> IF cordMessages = <<>> THEN None ELSE Some(cordMessages[1].id),
      head      |-> <<>>,
      msgs      |-> IF cordMessages = <<>> THEN <<>> ELSE Tail(Ids(cordMessages)),
      st        |-> Empty,
      res       |-> Empty,
      calls     |-> {},
      confirmed |-> {}]

\* createNewThreadWithComments up to its first call
NewThreadTask(cordThreadId) ==
  LET cordMessages == NewThreadMessages(cordThreadId)
      go == IF cordMessages = <<>> THEN FALSE
            ELSE toCreateCommentData(cordMessages[1], cordData) # None
  IN [cordThreadId |-> cordThreadId,
      stage     |-> IF go THEN "create" ELSE "done",
      thread    |-> None,
      error     |-> None,
      pairsRead |-> Undefined,
      first     |-> IF cordMessages = <<>> THEN None ELSE Some(cordMessages[1].id),
      head      |-> <<>>,
      msgs      |-> IF cordMessages = <<>> THEN <<>> ELSE Tail(Ids(cordMessages)),
      st        |-> Empty,
      res       |-> Empty,
      calls     |-> {},
      confirmed |-> {}]

\* One iteration of fixExistingThreadsMissingComments up to its first call
FixThreadTask(threadId, threadData) ==
  LET msgs == Ids(ExistingThreadMessages(threadId[2]))
  IN [cordThreadId |-> threadId[2],
      stage     |-> "comments",
      thread    |-> Some(threadId),
      error     |-> None,
      pairsRead |-> threadData.messageToCommentPairs,
      first     |-> None,
      head      |-> <<>>,
      msgs      |-> msgs,
      st        |-> CommentPlan(threadData.messageToCommentPairs, msgs),
      res       |-> [m \in Range(msgs) |-> None],
      calls     |-> {},
      confirmed |-> {}]

\* A createNewThreads that does not look at the threads of the room: the
\* fault its first filter excludes.
ClaimedInIgnored(room, cordThreadId) == FALSE

\* The threads createNewThreads selects for a room: not claimed by a thread of
\* the room's snapshot, and with a location that has every entry of the
\* room's metadata.
ClaimedIn(room, cordThreadId) ==
  \E t \in DOMAIN room.threads : room.threads[t].metadata.cordThreadId = cordThreadId

newThreads(room) ==
  {t.id : t \in {x \in Range(cordData.threads) :
                   /\ ~ClaimedIn(room, x.id)
                   /\ isSameLocation(room.metadata, toThreadData(x).location)}}

\* processRoom up to the first calls: createNewThreads starts
\* createNewThreadWithComments for every selected thread.
StartPass(room) ==
  [room    |-> room,
   tasks   |-> [k \in {<<"new", t, 0>> : t \in newThreads(room)} |-> NewThreadTask(k[2])],
   fixLeft |-> DOMAIN room.threads]

TasksDone(pass) == \A k \in DOMAIN pass.tasks : pass.tasks[k].stage = "done"
PassDone(pass) == TasksDone(pass) /\ pass.fixLeft = {}

\* A processRoom that does not await createNewThreads, with a loop that does
\* not await its iterations: the fault the two awaits exclude.
NextThreadsAtOnce(pass) == IF pass.fixLeft # {} THEN pass.fixLeft ELSE {None}

\* fixExistingThreadsMissingComments: once createNewThreads and the previous
\* iteration are done, the loop takes the next thread of the room's snapshot
\* and starts createNewComment for its messages.  The order of room.threads
\* is the destination's: any thread left may be the next one.
NextThreads(pass) == IF TasksDone(pass) /\ pass.fixLeft # {} THEN pass.fixLeft ELSE {None}

fixExistingThreadsMissingComments(pass, t) ==
  IF t = None THEN pass
  ELSE [pass EXCEPT !.fixLeft = @ \ {t},
                    !.tasks = (<<"fix", t[2], t[3]>> :> FixThreadTask(t, pass.room.threads[t])) @@ @]

\* processRoom from the start to its first calls
processRoom(room, t) == fixExistingThreadsMissingComments(StartPass(room), t)

\* createOrUpdateRooms returns and every processRoom starts
createOrUpdateRooms ==
  \E r \in Runs :
      /\ phase[r] = "rooms"
      /\ \A g \in DOMAIN groups[r] : groups[r][g].pc = "done"
      /\ phase' = [phase EXCEPT ![r] = "process"]
      /\ \E next \in [ResultRooms(r) -> {None} \cup DOMAIN threads] :
           /\ \A k \in ResultRooms(r) : next[k] \in NextThreads(StartPass(ResultRoom(r, k)))
           /\ passes' = [passes EXCEPT ![r] =
                           [k \in ResultRooms(r) |-> processRoom(ResultRoom(r, k), next[k])]]
      /\ UNCHANGED <<cordData, dest, existingRooms, groups, failures, overlapped, ended, responses, fetched, exec, ledger, pagination, reacting>>


InPass(r, k, key) ==
  /\ phase[r] = "process"
  /\ k \in DOMAIN passes[r]
  /\ key \in DOMAIN passes[r][k].tasks

\* A task of a pass moves on; when that ends createNewThreads or an iteration
\* of fixExistingThreadsMissingComments, the loop goes to its next thread.
SetTask(r, k, key, task) ==
  LET pass == [passes[r][k] EXCEPT !.tasks[key] = task]
  IN \E t \in NextThreads(pass) :
       passes' = [passes EXCEPT ![r][k] = fixExistingThreadsMissingComments(pass, t)]

\* The thread a task works on: the object createThread returned, or the one
\* taken from the room's snapshot.
WithThread(task, threadId, pairsValue, head) ==
  [task EXCEPT !.stage = "comments", !.thread = Some(threadId), !.pairsRead = pairsValue,
               !.head = head, !.st = CommentPlan(pairsValue, task.msgs),
               !.res = [m \in Range(task.msgs) |-> None]]

\* createNewThreadWithComments: the call liveblocks.createThread with the
\* opening comment; the task keeps the status of the error caught.  A 409 reuses the thread of the room's snapshot that
\* carries the source thread id; any other error gives no thread.
createThread ==
  \E r \in Runs : \E k \in DOMAIN passes[r] : \E key \in DOMAIN passes[r][k].tasks :
      /\ InPass(r, k, key)
      /\ passes[r][k].tasks[key].stage = "create"
      /\ LET pass == passes[r][k]
             task == pass.tasks[key]
             id == NewThreadId(pass.room.id, task.cordThreadId)
             firstComment == <<id, task.first[1], 1>>
             claimed == {t \in DOMAIN pass.room.threads :
                           pass.room.threads[t].metadata.cordThreadId = task.cordThreadId}
         IN \/ /\ threads' = (id :> [metadata |-> getCordThreadMetadata(CordThread(task.cordThreadId)),
                                     messageToCommentPairs |-> Undefined]) @@ threads
               /\ comments' = comments \cup {firstComment}
               /\ SetTask(r, k, key,
                    WithThread(task, id, Undefined, <<Pair(task.first[1], firstComment)>>))
               /\ UNCHANGED failures
            \/ /\ CanFail
               /\ failures' = failures + 1
               /\ \E status \in {409, 500} :
                    LET caught == [task EXCEPT !.error = Some(status)]
                    IN SetTask(r, k, key,
                         IF status = 409 /\ claimed # {}
                         THEN LET t == CHOOSE x \in claimed : TRUE
                              IN WithThread(caught, t,
                                            pass.room.threads[t].messageToCommentPairs, <<>>)
                         ELSE [caught EXCEPT !.stage = "done"])
               /\ UNCHANGED <<threads, comments>>
      /\ UNCHANGED <<cordData, rooms, phase, existingRooms, groups, overlapped, ended, responses, fetched, exec, ledger, pagination, reacting>>

\* getExistingThreadComment: the call liveblocks.getComment for the pair found
\* in the ledger; every error, 404 or not, is logged and gives null.
getExistingThreadComment ==
  \E r \in Runs : \E k \in DOMAIN passes[r] : \E key \in DOMAIN passes[r][k].tasks :
    \E m \in DOMAIN passes[r][k].tasks[key].st :
      /\ InPass(r, k, key)
      /\ passes[r][k].tasks[key].stage = "comments"
      /\ m \in DOMAIN passes[r][k].tasks[key].st
      /\ passes[r][k].tasks[key].st[m] = "lookup"
      /\ LET task == passes[r][k].tasks[key]
             existingPair == ExistingPair(task.pairsRead, m)[1]
             commentId == existingPair.liveblocksCommentId
         IN \/ /\ commentId \in comments
               /\ commentId[1] = task.thread[1]
               /\ SetTask(r, k, key,
                    [task EXCEPT !.st[m] = "settled", !.res[m] = Some(Pair(m, commentId)),
                                 !.confirmed = @ \cup {m}])
               /\ UNCHANGED failures
            \/ /\ commentId \notin comments
               /\ SetTask(r, k, key, [task EXCEPT !.st[m] = AfterLookup(m)])
               /\ UNCHANGED failures
            \/ /\ CanFail
               /\ failures' = failures + 1
               /\ SetTask(r, k, key, [task EXCEPT !.st[m] = AfterLookup(m)])
      /\ UNCHANGED <<cordData, dest, phase, existingRooms, groups, overlapped, ended, responses, fetched, exec, ledger, pagination, reacting>>

\* A createNewComment without its catch block: the error of createComment
\* rejects the Promise.all over the messages and ends the work on the thread.
createNewCommentUncaught ==
  \E r \in Runs : \E k \in DOMAIN passes[r] : \E key \in DOMAIN passes[r][k].tasks :
    \E m \in DOMAIN passes[r][k].tasks[key].st :
      /\ InPass(r, k, key)
      /\ passes[r][k].tasks[key].stage = "comments"
      /\ passes[r][k].tasks[key].st[m] = "create"
      /\ LET task == passes[r][k].tasks[key]
             id == NewCommentId(task.thread[1], m)
             sent == [task EXCEPT !.st[m] = "settled", !.calls = @ \cup {m}]
         IN \/ /\ comments' = comments \cup {id}
               /\ SetTask(r, k, key, [sent EXCEPT !.res[m] = Some(Pair(m, id))])
               /\ UNCHANGED failures
            \/ /\ CanFail
               /\ failures' = failures + 1
               /\ SetTask(r, k, key, [sent EXCEPT !.stage = "done"])
               /\ UNCHANGED comments
      /\ UNCHANGED <<cordData, rooms, threads, phase, existingRooms, groups, overlapped, ended,
                     responses, fetched, exec, ledger, pagination, reacting>>

\* createNewComment: the call liveblocks.createComment
createNewComment ==
  \E r \in Runs : \E k \in DOMAIN passes[r] : \E key \in DOMAIN passes[r][k].tasks :
    \E m \in DOMAIN passes[r][k].tasks[key].st :
      /\ InPass(r, k, key)
      /\ passes[r][k].tasks[key].stage = "comments"
      /\ m \in DOMAIN passes[r][k].tasks[key].st
      /\ passes[r][k].tasks[key].st[m] = "create"
      /\ LET task == passes[r][k].tasks[key]
             id == NewCommentId(task.thread[1], m)
             sent == [task EXCEPT !.st[m] = "settled", !.calls = @ \cup {m}]
         IN \/ /\ comments' = comments \cup {id}
               /\ SetTask(r, k, key, [sent EXCEPT !.res[m] = Some(Pair(m, id))])
               /\ UNCHANGED failures
            \/ /\ CanFail
               /\ failures' = failures + 1
               /\ SetTask(r, k, key, sent)
               /\ UNCHANGED comments
      /\ UNCHANGED <<cordData, rooms, threads, phase, existingRooms, groups, overlapped, ended, responses, fetched, exec, ledger, pagination, reacting>>

RECURSIVE Compact(_)
\* comments.filter(Boolean) on a list of optional pairs
Compact(s) == IF s = <<>> THEN <<>> ELSE Head(s) \o Compact(Tail(s))

\* The pairs a settled task hands to addCommmetsMetadataToThread
CommentsMetadata(task) == task.head \o Compact([i \in DOMAIN task.msgs |-> task.res[task.msgs[i]]])

\* The ledger value addCommmetsMetadataToThread writes for a task
LedgerToWrite(task) ==
  JSONstringifyPairs(MergePairs(parseThreadCommentsMetadata(task.pairsRead),
                                CommentsMetadata(task)))

\* addCommmetsMetadataToThread: the call liveblocks.editThreadMetadata once
\* every comment of the task has settled; an error is logged.
addCommmetsMetadataToThread ==
  \E r \in Runs : \E k \in DOMAIN passes[r] : \E key \in DOMAIN passes[r][k].tasks :
      /\ InPass(r, k, key)
      /\ passes[r][k].tasks[key].stage = "comments"
      /\ \A m \in DOMAIN passes[r][k].tasks[key].st : passes[r][k].tasks[key].st[m] = "settled"
      /\ LET task == passes[r][k].tasks[key]
         IN /\ \/ /\ threads' = [threads EXCEPT ![task.thread[1]].messageToCommentPairs =
                                                  LedgerToWrite(task)]
                  /\ UNCHANGED failures
               \/ /\ CanFail
                  /\ failures' = failures + 1
                  /\ UNCHANGED threads
            /\ SetTask(r, k, key, [task EXCEPT !.stage = "done"])
      /\ UNCHANGED <<cordData, rooms, comments, phase, existingRooms, groups, overlapped, ended, responses, fetched, exec, ledger, pagination, reacting>>

\* The body of the 200 response: success and the numbers of source records
\* (cordData itself, which is also sent, is left out).
json200 ==
  [success |-> TRUE,
   cordStats |-> [orgs |-> Len(cordData.orgs), users |-> Len(cordData.users),
                  threads |-> Len(cordData.threads), messages |-> Len(cordData.messages),
                  emailNotifications |-> Len(cordData.emailNotifications)]]

\* Every processRoom has returned: the handler answers 200.
Respond ==
  \E r \in Runs :
      /\ phase[r] = "process"
      /\ \A k \in DOMAIN passes[r] : PassDone(passes[r][k])
      /\ phase' = [phase EXCEPT ![r] = "done"]
      /\ ended' = [ended EXCEPT ![r] = Some(Counts)]
      /\ responses' = [responses EXCEPT ![r] = Append(@, 200)]
      /\ groups' = [groups EXCEPT ![r] = Empty]
      /\ passes' = [passes EXCEPT ![r] = Empty]
      /\ UNCHANGED <<cordData, dest, existingRooms, failures, overlapped, fetched, exec, ledger,
                     pagination, reacting>>

MessageIds == {m.id : m \in Range(cordData.messages)}

Next ==
  \/ getCordData
  \/ LiveblocksMigrationHandler
  \/ getLiveblocksData
  \/ updateRoom
  \/ createRoom
  \/ createRoomConflict
  \/ toRoomWithThreads
  \/ createOrUpdateRooms
  \/ createThread
  \/ getExistingThreadComment
  \/ createNewComment
  \/ addCommmetsMetadataToThread
  \/ Respond

Spec == Init /\ [][Next]_vars

\* Invocations of the entry point that overlap in time.
NextOverlapping == Next \/ LiveblocksMigrationHandlerOverlapping

InitOverlapping == Init /\ cordData = ScenarioAuthors

SpecOverlapping == InitOverlapping /\ [][NextOverlapping]_vars


\* ------------------------------------------- throttledPromises (part_001)
Min(a, b) == IF a < b THEN a ELSE b

\* A split that does not partition: every item in one batch.
splitInOne(arr, n) == IF arr = <<>> THEN <<>> ELSE <<arr>>

RECURSIVE split(_, _)
\* split: arr.splice(0, n) until arr is empty
split(arr, n) ==
  IF arr = <<>> THEN <<>>
  ELSE <<SubSeq(arr, 1, Min(n, Len(arr)))>> \o split(SubSeq(arr, Min(n, Len(arr)) + 1, Len(arr)), n)

\* The items of a call are distinct values; asyncFunction(item, index, items)
\* resolves with a value that names the item and the index it was given.
Item(i) == <<"item", i>>
Result(item, index) == <<"result", item, index>>

\* A promise of the batch in progress: pending, or settled with the value
\* Promise.all gets for it - p.catch(reject) settles with undefined.
Pending == [settled |-> FALSE, value |-> None]
Fulfilled(v) == [settled |-> TRUE, value |-> Some(v)]
Caught == [settled |-> TRUE, value |-> None]

\* asyncFunction is called with the item, batchNumber * batchSize + innerIndex
\* and items, the caller's array as split has left it; batchNumber is
\* array.indexOf(item) of asyncForEach.
Call(k, j) ==
  [item |-> batches'[k][j], index |-> (k - 1) * batchSize + (j - 1), array |-> items',
   batch |-> k]

\* The number of operations of the call that have failed
Failed ==
  Cardinality({i \in DOMAIN output : output[i] = None})
    + Cardinality({i \in DOMAIN promises : promises[i] = Caught})
    + (IF thrown THEN 1 ELSE 0)

\* asyncForEach goes to batch k, p being the state of the returned promise:
\* the operations of the batch are all started, unless asyncFunction throws
\* when called with item j: then batch.map stops there, the callback and
\* with it asyncForEach reject, and the catch-callback rejects the returned
\* promise. After the last batch the then-callback resolves the promise with
\* output, which has no effect on a promise that is rejected.
asyncForEach(k, p) ==
  IF k <= Len(batches')
  THEN \/ /\ batchNumber' = k
          /\ promises' = [j \in DOMAIN batches'[k] |-> Pending]
          /\ started' = started \cup {Call(k, j) : j \in DOMAIN batches'[k]}
          /\ promise' = p
          /\ UNCHANGED thrown
       \/ \E j \in DOMAIN batches'[k] :
            /\ Failed < MaxFailing
            /\ batchNumber' = k
            /\ promises' = <<>>
            /\ started' = started \cup {Call(k, i) : i \in 1..j}
            /\ promise' = IF p.state = "pending"
                          THEN Promise("rejected", <<>>, Some(batches'[k][j])) ELSE p
            /\ thrown' = TRUE
  ELSE /\ batchNumber' = k
       /\ promises' = <<>>
       /\ promise' = IF p.state = "pending" THEN Promise("resolved", output', None) ELSE p
       /\ UNCHANGED <<started, thrown>>

\* The state of the handler when only the executor is at work.
handler == <<cordData, rooms, threads, comments, phase, existingRooms, groups, passes,
             failures, overlapped, ended, responses, fetched>>

\* throttledPromises is called: split, and the first batch starts.  With a
\* width of 0 and an item, arr.splice(0, 0) takes nothing from arr and the
\* loop of split never ends: empty batches are pushed, nothing is returned.
throttledPromises ==
  /\ promise.state = "none"
  /\ batches = <<>>
  /\ \/ /\ batchSize > 0 \/ items = <<>>
        /\ batches' = split(items, batchSize)
        /\ items' = <<>>
        /\ output' = <<>>
        /\ asyncForEach(1, Promise("pending", <<>>, None))
     \/ /\ batchSize = 0
        /\ items # <<>>
        /\ batches' = << <<>> >>
        /\ UNCHANGED <<items, output, batchNumber, promises, promise, started, thrown>>
  /\ UNCHANGED <<batchSize, delay, sleeping, handler, ledger, pagination, reacting>>

\* A batch that is given up at the first rejection: the promises still
\* pending settle with it.
settleAborting ==
  \E j \in DOMAIN promises :
    /\ ~promises[j].settled
    /\ LET item == batches[batchNumber][j]
           index == (batchNumber - 1) * batchSize + (j - 1)
       IN \/ /\ promises' = [promises EXCEPT ![j] = Fulfilled(Result(item, index))]
             /\ UNCHANGED promise
          \/ /\ Failed < MaxFailing
             /\ promises' = [i \in DOMAIN promises |->
                               IF promises[i].settled THEN promises[i] ELSE Caught]
             /\ promise' = IF promise.state = "pending"
                           THEN Promise("rejected", <<>>, Some(item)) ELSE promise
    /\ UNCHANGED <<items, batchSize, delay, batches, batchNumber, sleeping, output, started,
                   thrown, handler, ledger, pagination, reacting>>

\* An operation of the batch in progress settles: its promise is fulfilled,
\* or it is rejected and p.catch(reject) rejects the returned promise.
settle ==
  \E j \in DOMAIN promises :
    /\ ~promises[j].settled
    /\ LET item == batches[batchNumber][j]
           index == (batchNumber - 1) * batchSize + (j - 1)
       IN \/ /\ promises' = [promises EXCEPT ![j] = Fulfilled(Result(item, index))]
             /\ UNCHANGED promise
          \/ /\ Failed < MaxFailing
             /\ promises' = [promises EXCEPT ![j] = Caught]
             /\ promise' = IF promise.state = "pending"
                           THEN Promise("rejected", <<>>, Some(item)) ELSE promise
    /\ UNCHANGED <<items, batchSize, delay, batches, batchNumber, sleeping, output, started,
                   thrown, handler, ledger, pagination, reacting>>

RECURSIVE ValuesReversed(_)
\* Results collected last promise first instead of in the order of the batch.
ValuesReversed(ps) ==
  IF ps = <<>> THEN <<>> ELSE ValuesReversed(Tail(ps)) \o <<Head(ps).value>>

RECURSIVE Values(_)
\* The values Promise.all resolves with, one per promise, in the order of the batch
Values(ps) == IF ps = <<>> THEN <<>> ELSE <<Head(ps).value>> \o Values(Tail(ps))

\* Promise.all of the batch resolves: the results are pushed to output; then
\* delayMS, or with no delay the next batch at once.
PromiseAll ==
  /\ batchNumber \in DOMAIN batches
  /\ ~sleeping
  /\ ~thrown
  /\ \A j \in DOMAIN promises : promises[j].settled
  /\ output' = output \o Values(promises)
  /\ UNCHANGED <<batches, items, batchSize, delay, handler, ledger, pagination, reacting>>
  /\ IF delay # 0
     THEN /\ sleeping' = TRUE
          /\ UNCHANGED <<batchNumber, promises, promise, started, thrown>>
     ELSE /\ asyncForEach(batchNumber + 1, promise)
          /\ UNCHANGED sleeping

\* A delayMS whose promise is never resolved: the executor stays in it.
delayMSNeverResolved ==
  /\ sleeping
  /\ UNCHANGED vars

\* delayMS resolves: asyncForEach goes to the next batch.
delayMS ==
  /\ sleeping
  /\ sleeping' = FALSE
  /\ UNCHANGED <<batches, output, items, batchSize, delay, handler, ledger, pagination,
                 reacting>>
  /\ asyncForEach(batchNumber + 1, promise)

NextExecutor ==
  \/ throttledPromises
  \/ settle
  \/ PromiseAll
  \/ delayMS

\* A caller with N items, a width and a delay; the handler is not at work.
InitExecutor ==
  /\ \E n \in 0..MaxItems : \E w \in 1..MaxWidth : \E d \in {0, DefaultDelay} :
       NotCalled([i \in 1..n |-> Item(i)], w, d)
  /\ NotParsed
  /\ NotListed(<<>>)
  /\ NotReacting(<<>>)
  /\ fetched = [r \in Runs |-> {}]
  /\ cordData = ScenarioOne
  /\ rooms = Empty
  /\ threads = Empty
  /\ comments = {}
  /\ phase = [r \in Runs |-> "idle"]
  /\ existingRooms = [r \in Runs |-> {}]
  /\ groups = [r \in Runs |-> Empty]
  /\ passes = [r \in Runs |-> Empty]
  /\ failures = 0
  /\ overlapped = FALSE
  /\ ended = [r \in Runs |-> None]
  /\ responses = [r \in Runs |-> <<>>]

SpecExecutor == InitExecutor /\ [][NextExecutor]_vars

\* A caller with any width, 0 included.  The call is made, every operation
\* started settles, and the continuations of Promise.all and of delayMS run.
InitExecutorAnyWidth ==
  /\ \E n \in 0..MaxItems : \E w \in 0..MaxWidth : \E d \in {0, DefaultDelay} :
       NotCalled([i \in 1..n |-> Item(i)], w, d)
  /\ NotParsed
  /\ NotListed(<<>>)
  /\ NotReacting(<<>>)
  /\ fetched = [r \in Runs |-> {}]
  /\ cordData = ScenarioOne
  /\ rooms = Empty
  /\ threads = Empty
  /\ comments = {}
  /\ phase = [r \in Runs |-> "idle"]
  /\ existingRooms = [r \in Runs |-> {}]
  /\ groups = [r \in Runs |-> Empty]
  /\ passes = [r \in Runs |-> Empty]
  /\ failures = 0
  /\ overlapped = FALSE
  /\ ended = [r \in Runs |-> None]
  /\ responses = [r \in Runs |-> <<>>]

SpecExecutorFair ==
  /\ InitExecutorAnyWidth
  /\ [][NextExecutor]_vars
  /\ WF_vars(throttledPromises) /\ WF_vars(settle) /\ WF_vars(PromiseAll) /\ WF_vars(delayMS)

\* ------------------------------------------------- the ledger functions
SeqsUpTo(set, n) == UNION {[1..k -> set] : k \in 0..n}

\* What the elements of a parsed array can be: an object with the two keys,
\* an object with one of them, a number, null, a string that holds the JSON
\* of an object with the two keys, a string that is not JSON.
Elements ==
  {Object(Pair("m1", "c1")), Object(Pair("m2", "c2")), Object([cordMessageId |-> "m1"]),
   JSONnumber("1"), JSONnull, JSONstring(Object(Pair("m1", "c1s"))), JSONstring(NotJSON)}

\* What thread.metadata.messageToCommentPairs can be: undefined, a number, a
\* string that is not JSON, the JSON of an object, of a number, of an array.
MetadataValues ==
  {Undefined, JSONnumber("123"), JSONstring(NotJSON), JSONstring(Object(Pair("m1", "c1"))),
   JSONstring(JSONnumber("1"))}
    \cup {JSONarray(a) : a \in SeqsUpTo(Elements, MaxElements)}

\* The pairs addCommmetsMetadataToThread is given
AddedPairs == SeqsUpTo({Pair("m2", "c2b"), Pair("m3", "c3")}, MaxAdded)

\* The handler and the executor are not at work.
Idle ==
  /\ NotCalled(<<>>, DefaultBatchSize, DefaultDelay)
  /\ cordData = ScenarioOne
  /\ rooms = Empty
  /\ threads = Empty
  /\ comments = {}
  /\ phase = [r \in Runs |-> "idle"]
  /\ existingRooms = [r \in Runs |-> {}]
  /\ groups = [r \in Runs |-> Empty]
  /\ passes = [r \in Runs |-> Empty]
  /\ failures = 0
  /\ overlapped = FALSE
  /\ ended = [r \in Runs |-> None]
  /\ responses = [r \in Runs |-> <<>>]
  /\ fetched = [r \in Runs |-> {}]

\* addCommmetsMetadataToThread, line 268: the ledger of the thread is parsed.
callParseThreadCommentsMetadata ==
  /\ existingPairs = None
  /\ existingPairs' = Some(parseThreadCommentsMetadata(existingValue))
  /\ UNCHANGED <<existingValue, commentsMetadata, commentsPairsMetadata, handler, exec,
                 pagination, reacting>>

\* addCommmetsMetadataToThread, lines 270-275: the pairs read are merged with
\* the pairs to add.
mergeCommentsMetadata ==
  /\ existingPairs # None
  /\ commentsPairsMetadata = None
  /\ commentsPairsMetadata' = Some(MergePairs(existingPairs[1], commentsMetadata))
  /\ UNCHANGED <<existingValue, commentsMetadata, existingPairs, handler, exec, pagination, reacting>>

NextLedger ==
  \/ callParseThreadCommentsMetadata
  \/ mergeCommentsMetadata

\* A thread with any metadata value and any pairs to add.
InitLedger ==
  /\ existingValue \in MetadataValues
  /\ commentsMetadata \in AddedPairs
  /\ existingPairs = None
  /\ commentsPairsMetadata = None
  /\ NotListed(<<>>)
  /\ NotReacting(<<>>)
  /\ Idle

SpecLedger == InitLedger /\ [][NextLedger]_vars

\* ------------------------------------------------- the listing of the rooms
\* The cursor getRooms returns with page k, and the rooms of a page
Cursor(k) == <<"cursor", k>>
PageRooms(k, n) == [i \in 1..n |-> <<"room", k, i>>]

\* The destination's rooms in pages: every page but the last comes with the
\* cursor of the next one, the last with null.
Listings ==
  UNION {{[k \in 1..n |-> [data |-> PageRooms(k, size[k]),
                           nextCursor |-> IF k < n THEN Some(Cursor(k)) ELSE None]] :
            size \in [1..n -> 0..MaxPageRooms]} : n \in 1..MaxPages}

\* The page getRooms answers with: the first without startingAfter, else the
\* one after the page that came with that cursor.
PageAfter(after) == IF after = None THEN 1 ELSE after[1][2] + 1

\* A callback that never passes the cursor on.
startingAfterNothing(p, cursor) == None

\* startingAfter of the getRooms call: page === 0 ? undefined : nextCursor ?? undefined
startingAfter(p, cursor) == IF p = 0 THEN None ELSE cursor

\* paginatedCallback is called: page is 0, the loop is entered and the
\* callback issues the first getRooms call.
paginatedCallback ==
  /\ requests = <<>>
  /\ ~awaiting
  /\ requests' = <<startingAfter(page, nextCursor)>>
  /\ awaiting' = TRUE
  /\ UNCHANGED <<listing, page, nextCursor, listedRooms, handler, exec, ledger, reacting>>

\* A callback whose error empties the list of rooms: the fault excluded by
\* the catch block that leaves rooms as it is.
getRoomsForgetting ==
  /\ awaiting
  /\ \E ok \in BOOLEAN :
       LET response == listing[PageAfter(requests[Len(requests)])]
           result == IF ok THEN response.nextCursor ELSE None
       IN /\ listedRooms' = IF ok THEN listedRooms \o response.data ELSE <<>>
          /\ nextCursor' = result
          /\ page' = page + 1
          /\ IF page' = 0 \/ result # None
             THEN /\ requests' = Append(requests, startingAfter(page', result))
                  /\ UNCHANGED awaiting
             ELSE /\ awaiting' = FALSE
                  /\ UNCHANGED requests
  /\ UNCHANGED <<listing, handler, exec, ledger, reacting>>

\* The getRooms call returns or fails: the callback pushes the rooms of the
\* page and returns its cursor, or returns null on an error; paginatedCallback
\* takes the cursor, counts the page and goes round the loop, where the
\* callback issues the next call, or leaves it.
getRooms ==
  /\ awaiting
  /\ \E ok \in BOOLEAN :
       LET response == listing[PageAfter(requests[Len(requests)])]
           result == IF ok THEN response.nextCursor ELSE None
       IN /\ listedRooms' = IF ok THEN listedRooms \o response.data ELSE listedRooms
          /\ nextCursor' = result
          /\ page' = page + 1
          /\ IF page' = 0 \/ result # None
             THEN /\ requests' = Append(requests, startingAfter(page', result))
                  /\ UNCHANGED awaiting
             ELSE /\ awaiting' = FALSE
                  /\ UNCHANGED requests
  /\ UNCHANGED <<listing, handler, exec, ledger, reacting>>

NextPagination ==
  \/ paginatedCallback
  \/ getRooms

\* A destination with its rooms in any number of pages.
InitPagination ==
  /\ \E pages \in Listings : NotListed(pages)
  /\ NotParsed
  /\ NotReacting(<<>>)
  /\ Idle

SpecPagination == InitPagination /\ [][NextPagination]_vars

\* A getRooms call that is awaited is answered or fails in the end, and the
\* loop goes on when it is.
SpecPaginationFair == SpecPagination /\ WF_vars(NextPagination)

\* ------------------------------------------- the reactions of a new comment
\* The reactions of the message: by no user (userID null), by a user with an
\* external id, by a user that is not in cordData.users.
ReactionUsers == {"", "u1", "u9"}
MessageReactions ==
  UNION {{[i \in 1..n |-> [id |-> i, userID |-> u[i]]] : u \in [1..n -> ReactionUsers]} :
           n \in 0..MaxReactions}

\* The pair createNewComment returns for the comment created
CreatedPair == Pair("m1", "c1")

\* createNewComment, lines 220-224: the call liveblocks.createComment.  Its
\* error is caught at 233 and null returned.
createComment ==
  /\ at = "createComment"
  /\ \/ /\ comment' = Some("c1")
        /\ at' = "findAll"
     \/ /\ at' = "returned"
        /\ UNCHANGED comment
  /\ UNCHANGED <<messageReactions, reactions, reactionCalls, inFlight, added, returnValue,
                 handler, exec, ledger, pagination>>

\* A validReactions.map that calls addCommentReaction for every reaction with
\* a user id: the fault the check of userId excludes.
ReactionCallsForAll(validReactions) == validReactions

\* The reactions validReactions.map calls liveblocks.addCommentReaction for:
\* those whose user has an external id.
ReactionCalls(validReactions) ==
  SelectSeq(validReactions, LAMBDA r : getExternalUserId(cordData, r.userID) # "")

\* addReactionsToComment up to the Promise.all: findAll returns the reactions
\* or fails, which leaves the list empty; without a reaction that has a user
\* id the function returns, and createNewComment returns the pair; else the
\* calls are issued, and a Promise.all over nulls alone resolves at once.
findAll ==
  /\ at = "findAll"
  /\ \E found \in {messageReactions, <<>>} :
       LET validReactions == SelectSeq(found, LAMBDA r : r.userID # "")
       IN /\ reactions' = found
          /\ reactionCalls' = ReactionCalls(validReactions)
          /\ inFlight' = DOMAIN reactionCalls'
          /\ IF reactionCalls' = <<>>
             THEN /\ at' = "returned"
                  /\ returnValue' = Some(CreatedPair)
             ELSE /\ at' = "addCommentReaction"
                  /\ UNCHANGED returnValue
  /\ UNCHANGED <<messageReactions, comment, added, handler, exec, ledger, pagination>>

\* An addReactionsToComment without the catch block of its Promise.all: the
\* error of a call reaches the catch block of createNewComment, which
\* returns null.
addCommentReactionUncaught ==
  /\ inFlight # {}
  /\ \E i \in inFlight : \E ok \in BOOLEAN :
       /\ inFlight' = inFlight \ {i}
       /\ added' = IF ok THEN added \cup {reactionCalls[i].id} ELSE added
       /\ IF at = "addCommentReaction" /\ (~ok \/ inFlight' = {})
          THEN /\ at' = "returned"
               /\ returnValue' = IF ok THEN Some(CreatedPair) ELSE None
          ELSE UNCHANGED <<at, returnValue>>
  /\ UNCHANGED <<messageReactions, comment, reactions, reactionCalls, handler, exec, ledger,
                 pagination>>

\* A liveblocks.addCommentReaction call settles.  Promise.all resolves when
\* the last call has, and rejects with the first that fails: either way
\* addReactionsToComment returns, and createNewComment returns the pair; the
\* calls still in flight settle afterwards.
addCommentReaction ==
  /\ inFlight # {}
  /\ \E i \in inFlight : \E ok \in BOOLEAN :
       /\ inFlight' = inFlight \ {i}
       /\ added' = IF ok THEN added \cup {reactionCalls[i].id} ELSE added
       /\ IF at = "addCommentReaction" /\ (~ok \/ inFlight' = {})
          THEN /\ at' = "returned"
               /\ returnValue' = Some(CreatedPair)
          ELSE UNCHANGED <<at, returnValue>>
  /\ UNCHANGED <<messageReactions, comment, reactions, reactionCalls, handler, exec, ledger,
                 pagination>>

NextReactions ==
  \/ createComment
  \/ findAll
  \/ addCommentReaction

\* createNewComment is at its createComment call, for a message with any
\* reactions.
InitReactions ==
  /\ messageReactions \in MessageReactions
  /\ at = "createComment"
  /\ comment = None
  /\ reactions = <<>>
  /\ reactionCalls = <<>>
  /\ inFlight = {}
  /\ added = {}
  /\ returnValue = None
  /\ NotParsed
  /\ NotListed(<<>>)
  /\ Idle

SpecReactions == InitReactions /\ [][NextReactions]_vars

\* ------------------------------------------------------------------ claims
PairsOf(threadId) == parseThreadCommentsMetadata(threads[threadId].messageToCommentPairs)
MessagesOf(pairs) == {pairs[i].cordMessageId : i \in DOMAIN pairs}
UniqueMessages(pairs) ==
  \A i, j \in DOMAIN pairs : pairs[i].cordMessageId = pairs[j].cordMessageId => i = j
Resolvable(messageId) == toCreateCommentData(Msg(messageId), cordData) # None
ClaimedBy(cordThreadId) ==
  {t \in DOMAIN threads : threads[t].metadata.cordThreadId = cordThreadId}
CommentsFor(threadId, messageId) == {c \in comments : c[1] = threadId /\ c[2] = messageId}
AllTasks ==
  UNION {UNION {{<<r, k, key>> : key \in DOMAIN passes[r][k].tasks} : k \in DOMAIN passes[r]} :
           r \in Runs}
TaskAt(x) == passes[x[1]][x[2]].tasks[x[3]]

\* C1: in every thread of the destination there is at most one comment for
\* any source message id, whatever calls have failed in this or an earlier run.
C1_OneCommentPerMessage ==
  \A t \in DOMAIN threads : \A m \in MessageIds : Cardinality(CommentsFor(t, m)) <= 1

\* C2: at any time at most one destination thread carries a given source
\* thread id in its metadata.
C2_OneThreadPerSourceThread ==
  \A T \in Range(cordData.threads) : Cardinality(ClaimedBy(T.id)) <= 1

\* The source threads C3 is about: at least one message with a resolvable
\* author, and a room group that resolves an organization with an external id.
Migratable(T) ==
  /\ \E m \in Range(cordData.messages) : m.threadID = T.id /\ Resolvable(m.id)
  /\ \E i \in DOMAIN getRoomsFromCordData(cordData) :
       LET group == getRoomsFromCordData(cordData)[i]
           org == GroupOrg(cordData, group)
       IN /\ T.id \in Range(group.threadIds)
          /\ org # None
          /\ org[1].externalID # ""

\* C3: after a first run on an empty destination without a failed call, every
\* migratable source thread is claimed by exactly one destination thread, in
\* the room derived from its location, and each of its messages with a
\* resolvable author has exactly one comment there.
C3_EveryThreadMigratedOnce ==
  (phase[1] = "done" /\ failures = 0 /\ \A r \in Runs : r > 1 => phase[r] = "idle")
    => \A T \in Range(cordData.threads) :
         Migratable(T) =>
           /\ Cardinality(ClaimedBy(T.id)) = 1
           /\ \A t \in ClaimedBy(T.id) :
                /\ t[1] = getRoomId(T.location)
                /\ \A m \in Range(cordData.messages) :
                     (m.threadID = T.id /\ Resolvable(m.id))
                       => Cardinality(CommentsFor(t, m.id)) = 1

\* C4: when no call fails, a run that follows a completed run ends with the
\* same numbers of rooms, threads and comments as the run before it.
C4_SecondRunCreatesNothing ==
  \A r \in Runs :
    (r > 1 /\ failures = 0 /\ ended[r] # None /\ ended[r - 1] # None)
      => ended[r][1] = ended[r - 1][1]

C4_Witness ==
  /\ failures = 0
  /\ ended[1] # None
  /\ ended[2] # None
  /\ ended[2][1].rooms > 0
  /\ ended[2][1].threads > 0
  /\ ended[2][1].comments > 1

\* C5 for one iteration of fixExistingThreadsMissingComments that ends in this
\* step by writing the ledger: the createComment calls it issued are those of
\* Expected(task); and when the write succeeds, the stored ledger holds the
\* pair of every confirmed message as it was read and the pair of every
\* created comment.
C5_Iteration(x, expected) ==
  LET task == TaskAt(x)
      written == parseThreadCommentsMetadata(threads'[task.thread[1]].messageToCommentPairs)
  IN (x[3][1] = "fix" /\ task.stage = "comments"
        /\ passes'[x[1]][x[2]].tasks[x[3]].stage = "done")
       => /\ task.calls = expected
          /\ failures' = failures =>
               /\ \A m \in task.confirmed :
                    /\ ExistingPair(threads'[task.thread[1]].messageToCommentPairs, m)
                         = ExistingPair(task.pairsRead, m)
                    /\ task.res[m] = ExistingPair(task.pairsRead, m)
               /\ \A m \in task.calls :
                    task.res[m] # None
                      => ExistingPair(threads'[task.thread[1]].messageToCommentPairs, m)
                           = task.res[m]
               /\ MessagesOf(written) \subseteq
                    MessagesOf(parseThreadCommentsMetadata(task.pairsRead))
                      \cup task.confirmed \cup task.calls

\* C5 (as claimed): a pass over an existing thread issues a createComment call
\* for exactly the messages of the thread outside the confirmed set S, and
\* the ledger it persists holds the pairs of S unchanged plus the new pairs.
C5_CreatesExactlyOutsideS ==
  [][\A x \in AllTasks :
       C5_Iteration(x, Range(TaskAt(x).msgs) \ TaskAt(x).confirmed)]_vars

\* C5 (amended): a pass over an existing thread issues a createComment call
\* for exactly the messages outside the confirmed set S whose author
\* resolves, and the ledger it persists holds the pairs of S unchanged plus
\* the new pairs.
C5_CreatesResolvableOutsideS ==
  [][\A x \in AllTasks :
       C5_Iteration(x, {m \in Range(TaskAt(x).msgs) \ TaskAt(x).confirmed : Resolvable(m)})]_vars

\* An iteration over an existing thread has confirmed two pairs, created a
\* comment for a third message and is about to write the ledger.
C5_Witness ==
  \E x \in AllTasks :
    /\ x[3][1] = "fix"
    /\ TaskAt(x).stage = "comments"
    /\ Cardinality(TaskAt(x).confirmed) = 2
    /\ \E m \in TaskAt(x).calls : TaskAt(x).res[m] # None
    /\ \A m \in DOMAIN TaskAt(x).st : TaskAt(x).st[m] = "settled"


\* C6: no step removes a source message id from a thread's stored ledger.
C6_LedgerNeverLosesEntry ==
  [][\A t \in DOMAIN threads :
       MessagesOf(PairsOf(t))
         \subseteq MessagesOf(parseThreadCommentsMetadata(threads'[t].messageToCommentPairs))]_vars

\* The tasks whose comments have all settled: addCommmetsMetadataToThread is
\* their next call.
AboutToWrite(task) ==
  /\ task.stage = "comments"
  /\ \A m \in DOMAIN task.st : task.st[m] = "settled"

\* C7: every ledger value the engine writes, and so every stored ledger, has
\* at most one pair per source message id, when the ledger the task read from
\* its thread has at most one.
C7_WrittenLedgerUnique ==
  /\ \A x \in AllTasks :
       (AboutToWrite(TaskAt(x))
          /\ UniqueMessages(parseThreadCommentsMetadata(TaskAt(x).pairsRead)))
         => UniqueMessages(parseThreadCommentsMetadata(LedgerToWrite(TaskAt(x))))
  /\ \A t \in DOMAIN threads : UniqueMessages(PairsOf(t))

\* A task is about to write a ledger that merges pairs read from the thread
\* with pairs of the messages it processed.
C7_Witness ==
  \E x \in AllTasks :
    /\ AboutToWrite(TaskAt(x))
    /\ Len(parseThreadCommentsMetadata(TaskAt(x).pairsRead)) >= 2
    /\ Len(CommentsMetadata(TaskAt(x))) >= 2
    /\ Len(parseThreadCommentsMetadata(LedgerToWrite(TaskAt(x)))) >= 3

\* C8: every destination thread is in the room whose id is the room key of
\* its source thread's location.
C8_ThreadOnlyInItsRoom ==
  \A t \in DOMAIN threads : t[1] = getRoomId(CordThread(t[2]).location)

AllGroups == UNION {{<<r, g>> : g \in DOMAIN groups[r]} : r \in Runs}
GroupAt(x) == groups[x[1]][x[2]]

\* C9: for a room that is in the list of existing rooms the reconciler issues
\* an update and no create, for any other room a create.
C9_UpdateOrCreate ==
  \A x \in AllGroups :
    LET task == GroupAt(x)
    IN /\ task.existed => "create" \notin Range(task.issued)
       /\ (task.pc = "done" /\ task.params # None)
            => IF task.existed THEN task.issued = <<"update">>
               ELSE task.issued[1] = "create"

\* C10: a create that got a 409 is followed by an update of the same room with
\* the same parameters; unless that update fails, the room is returned by
\* createRoom, with the metadata a successful create returns, and is an entry
\* of the result set.
C10_ConflictFallsBackToUpdate ==
  \A x \in AllGroups :
    LET task == GroupAt(x)
    IN (task.conflict \notin {"no", "thrown"})
         => /\ task.pc # "conflict" =>
                 /\ task.issued[Len(task.issued)] = "update"
                 /\ task.issued[Len(task.issued) - 1] = "create"
                 /\ rooms[x[2]] = task.params[1]
            /\ task.pc = "done" =>
                 /\ task.created # None
                 /\ task.created[1].id = x[2]
                 /\ task.created[1].metadata = task.params[1].metadata
            /\ phase[x[1]] = "process" => <<"created", x[2]>> \in DOMAIN passes[x[1]]

\* A create got a 409, the update that followed succeeded and the run has
\* started processRoom on the room.
C10_Witness ==
  \E x \in AllGroups :
    /\ GroupAt(x).conflict = "updated"
    /\ phase[x[1]] = "process"
    /\ <<"created", x[2]>> \in DOMAIN passes[x[1]]

\* The room groups of a run that createOrUpdateRooms does not skip and that
\* have no entry in its result.
LeftOut(r) ==
  {g \in DOMAIN groups[r] :
     /\ groups[r][g].params # None
     /\ <<"created", g>> \notin ResultRooms(r)
     /\ <<"updated", g>> \notin ResultRooms(r)}

\* C11: a failed room call (create, update, the update after a create
\* conflict) never makes the handler answer with a failure, and once the room
\* reconciler has returned, at most one room per failed call is missing from
\* its result.
C11_RoomFailureNotFatal ==
  \A r \in Runs :
    /\ phase[r] # "failed"
    /\ 500 \notin Range(responses[r])
    /\ phase[r] = "process" => Cardinality(LeftOut(r)) <= failures

\* C13: an invocation has sent no response while it is at work, exactly one
\* response - 200 - once every processRoom has returned, and exactly one
\* response - 500 - once an exception has reached the catch block; and no
\* step removes a room, a thread or a comment from the destination.
C13_ExactlyOneResponse ==
  /\ [](\A r \in Runs :
          /\ phase[r] = "done" => responses[r] = <<200>>
          /\ phase[r] = "failed" => responses[r] = <<500>>
          /\ phase[r] \notin {"done", "failed"} => responses[r] = <<>>)
  /\ [][/\ DOMAIN rooms \subseteq DOMAIN rooms'
        /\ DOMAIN threads \subseteq DOMAIN threads'
        /\ comments \subseteq comments']_vars

\* A run has answered 200 and the next one 500, with the threads and comments
\* of the first run in the destination.
C13_Witness ==
  /\ responses[1] = <<200>>
  /\ responses[2] = <<500>>
  /\ DOMAIN threads # {}
  /\ comments # {}

\* A getComment call of the run is in flight.
LookupInFlight(r) ==
  \E x \in AllTasks :
    /\ x[1] = r
    /\ TaskAt(x).stage = "comments"
    /\ \E m \in DOMAIN TaskAt(x).st : TaskAt(x).st[m] = "lookup"

\* C12: a failed createThread, createComment, getComment or
\* editThreadMetadata call ends only its own operation: a task that had a
\* thread ends only after every message of its list has been handed to
\* createNewComment and has settled; while processRoom is at work no response
\* has been sent and, unless a getComment call is in flight, a next call or
\* the response is possible; and the only way the run leaves that phase is
\* the 200 response.
C12_ProcessingFailureNotFatal ==
  /\ [](\A x \in AllTasks :
          (TaskAt(x).stage = "done" /\ TaskAt(x).thread # None)
            => \A m \in Range(TaskAt(x).msgs) : TaskAt(x).st[m] = "settled")
  /\ [](\A r \in Runs : passes[r] # Empty => (phase[r] = "process" /\ responses[r] = <<>>))
  /\ [](\A r \in Runs :
          phase[r] = "process"
            => \/ LookupInFlight(r)
               \/ ENABLED (createThread \/ createNewComment
                             \/ addCommmetsMetadataToThread \/ Respond))
  /\ [][\A r \in Runs :
          (phase[r] = "process" /\ phase'[r] # "process")
            => (phase'[r] = "done" /\ responses'[r] = <<200>>)]_vars

\* The createComment call of one message of a thread has failed, the one of
\* another message of the same thread has succeeded and the task has ended.
C12_Witness ==
  \E x \in AllTasks :
    /\ TaskAt(x).stage = "done"
    /\ \E m \in TaskAt(x).calls : TaskAt(x).res[m] = None
    /\ \E m \in TaskAt(x).calls : TaskAt(x).res[m] # None

\* ---------------------------------------------- claims on throttledPromises
RECURSIVE Flatten(_)
Flatten(bs) == IF bs = <<>> THEN <<>> ELSE Head(bs) \o Flatten(Tail(bs))
\* The items throttledPromises was called with, and their number
GivenItems == IF promise.state = "none" THEN items ELSE Flatten(batches)
Ceil(n, w) == (n + w - 1) \div w
InFlight == {j \in DOMAIN promises : ~promises[j].settled}
\* asyncForEach has gone through every batch
Finished == promise.state # "none" /\ batchNumber > Len(batches)

\* C14: N items and width W give ceil(N/W) batches, all of size W but the
\* last, which holds the rest, in the order of the items; the operations of
\* a batch are started only when no operation of the batch before is
\* pending, batch after batch; at most W operations are in flight.
C14_SequentialBatches ==
  /\ [](promise.state # "none"
          => /\ Len(batches) = Ceil(Len(GivenItems), batchSize)
             /\ \A k \in DOMAIN batches :
                  /\ Len(batches[k]) >= 1
                  /\ Len(batches[k]) <= batchSize
                  /\ k < Len(batches) => Len(batches[k]) = batchSize
             /\ (Len(GivenItems) = 7 /\ batchSize = 3)
                  => [k \in DOMAIN batches |-> Len(batches[k])] = <<3, 3, 1>>)
  /\ [](Cardinality(InFlight) <= batchSize)
  /\ [][(promise.state = "none" /\ promise'.state # "none") => Flatten(batches') = items]_vars
  /\ [][started' # started
          => /\ InFlight = {}
             /\ batchNumber' = batchNumber + 1
             /\ started' \ started \subseteq
                  {Call(batchNumber', j) : j \in DOMAIN batches'[batchNumber']}
             /\ ~thrown' => Cardinality(started' \ started) = Len(batches'[batchNumber'])]_vars

\* Seven items and width 3: the third batch, of one item, is in flight.
C14_Witness ==
  /\ Len(GivenItems) = 7
  /\ batchSize = 3
  /\ batchNumber = 3
  /\ Cardinality(InFlight) = 1
  /\ Len(output) = 6

\* C15: when no operation has failed and every batch is done, the returned
\* promise is resolved with N values, the i-th being the result of the
\* operation called with item i and index i - 1.
C15_ResultsInItemOrder ==
  (Finished /\ Failed = 0)
    => promise = Promise("resolved",
                         [i \in 1..Len(GivenItems) |-> Some(Result(GivenItems[i], i - 1))],
                         None)

\* Seven items in batches of three have all succeeded.
C15_Witness ==
  /\ Finished
  /\ Failed = 0
  /\ batchSize = 3
  /\ promise.state = "resolved"
  /\ Len(promise.value) = 7

\* C16: when exactly one operation has failed and every batch is done, the
\* returned promise is resolved with N values: absent at the position of the
\* failed item, the operation's result at every other position.
C16_FailedItemAbsent ==
  (Finished /\ Failed = 1)
    => /\ promise.state = "resolved"
       /\ Len(promise.value) = Len(GivenItems)
       /\ Cardinality({i \in DOMAIN promise.value : promise.value[i] = None}) = 1
       /\ \A i \in DOMAIN promise.value :
            promise.value[i] \in {None, Some(Result(GivenItems[i], i - 1))}

\* C17: every operation of a batch whose calls have all returned a promise
\* has been started, whatever happens to the promises; a step settles one
\* operation and leaves the other promises of the batch as they are; the
\* results of a batch are pushed only when all its operations have settled,
\* one value per operation.
C17_SiblingsNotAborted ==
  /\ []((batchNumber \in DOMAIN batches /\ ~thrown)
          => /\ DOMAIN promises = DOMAIN batches[batchNumber]
             /\ \A j \in DOMAIN promises :
                  [item |-> batches[batchNumber][j],
                   index |-> (batchNumber - 1) * batchSize + (j - 1),
                   array |-> items,
                   batch |-> batchNumber] \in started)
  /\ [][batchNumber' = batchNumber
          => Cardinality({j \in DOMAIN promises : promises'[j] # promises[j]}) <= 1]_vars
  /\ [][output' # output
          => /\ InFlight = {}
             /\ Len(output') = Len(output) + Len(batches[batchNumber])]_vars

\* In a batch of three, one operation has failed, another has succeeded and
\* the third is still running, the returned promise being rejected.
C17_Witness ==
  /\ Len(promises) = 3
  /\ \E j \in DOMAIN promises : promises[j] = Caught
  /\ \E j \in DOMAIN promises : promises[j].settled /\ promises[j].value # None
  /\ Cardinality(InFlight) = 1
  /\ promise.state = "rejected"

\* C18: once an operation has failed the returned promise is rejected with
\* its exception, and from then on no operation is started.
C18_AbortedAfterException ==
  /\ [](Failed > 0 => (promise.state = "rejected" /\ promise.reason # None))
  /\ [][promise.state = "rejected" => started' = started]_vars

\* ------------------------------------------ claims on the calls in flight
\* The destination calls of a run that are in flight: those of the groups of
\* createOrUpdateRooms, the createThread and editThreadMetadata calls, and
\* the getComment and createComment calls.
RoomCalls(r) == {g \in DOMAIN groups[r] : groups[r][g].pc # "done"}
ThreadCalls(r) ==
  {x \in AllTasks :
     /\ x[1] = r
     /\ \/ TaskAt(x).stage = "create"
        \/ /\ TaskAt(x).stage = "comments"
           /\ \A m \in DOMAIN TaskAt(x).st : TaskAt(x).st[m] = "settled"}
CommentCalls(r) ==
  UNION {{<<x, m>> : m \in {n \in DOMAIN TaskAt(x).st : TaskAt(x).st[n] \in {"lookup", "create"}}} :
           x \in {y \in AllTasks : y[1] = r /\ TaskAt(y).stage = "comments"}}

\* C19: at each level - room operations, thread creations, comment
\* creations - the destination calls of a run in flight are operations the
\* batch executor has in flight: never more than those it has pending.
C19_CallsThroughExecutor ==
  \A r \in Runs :
    /\ Cardinality(RoomCalls(r)) <= Cardinality(InFlight)
    /\ Cardinality(ThreadCalls(r)) <= Cardinality(InFlight)
    /\ Cardinality(CommentCalls(r)) <= Cardinality(InFlight)

\* ------------------------------------------------- claims on the room key
\* C20: two threads at the same location have the same room id, and so have
\* two threads whose locations have the same entries in any key order.
C20_RoomKeyIgnoresKeyOrder ==
  \A a \in Range(threadsLocations(cordData)) : \A b \in Range(threadsLocations(cordData)) :
    /\ a.location = b.location => a.roomId = b.roomId
    /\ Range(a.location) = Range(b.location) => a.roomId = b.roomId

\* ------------------------------------------- claims on the ledger functions
\* The array a metadata value holds, when it is a string with the JSON of one
IsJSONArray(v) ==
  /\ v.kind = "string"
  /\ v.parsed # NotJSON
  /\ v.parsed.kind = "array"
HasBothIds(v) ==
  /\ v.kind = "object"
  /\ {"cordMessageId", "liveblocksCommentId"} \subseteq DOMAIN v.fields
FieldsOf(objects) == [i \in DOMAIN objects |-> objects[i].fields]

\* C21: parseThreadCommentsMetadata returns for every value; the empty list
\* unless the value is a string with the JSON of an array, and then the
\* elements of the array that have both cordMessageId and
\* liveblocksCommentId, in the order of the array, and nothing else.
C21_ParseKeepsPairElements ==
  /\ existingPairs = None => ENABLED callParseThreadCommentsMetadata
  /\ existingPairs # None
       => existingPairs[1] =
            IF IsJSONArray(existingValue)
            THEN FieldsOf(SelectSeq(existingValue.parsed.items, HasBothIds))
            ELSE <<>>

RECURSIVE Decoded(_)
\* An element that is a string holding JSON stands for what it decodes to.
Decoded(v) ==
  IF v.kind = "string" /\ v.parsed # NotJSON THEN Decoded(v.parsed) ELSE v
DecodedAll(elements) == [i \in DOMAIN elements |-> Decoded(elements[i])]

\* C21 as amended: parseThreadCommentsMetadata returns for every value; the
\* empty list unless the value is a string with the JSON of an array, and
\* then, in the order of the array, the elements that have both ids, an
\* element that is a string holding the JSON of such an object counting as
\* that object.
C21_ParseKeepsDecodedPairs ==
  /\ existingPairs = None => ENABLED callParseThreadCommentsMetadata
  /\ existingPairs # None
       => existingPairs[1] =
            IF IsJSONArray(existingValue)
            THEN FieldsOf(SelectSeq(DecodedAll(existingValue.parsed.items), HasBothIds))
            ELSE <<>>

\* An array of a pair, null and a string holding the JSON of a pair has been
\* parsed to the two pairs.
C21_Witness ==
  /\ existingValue = JSONarray(<<Object(Pair("m2", "c2")), JSONnull,
                                 JSONstring(Object(Pair("m1", "c1s")))>>)
  /\ existingPairs = Some(<<Pair("m2", "c2"), Pair("m1", "c1s")>>)

\* The positions of the pairs read whose message is not among those added
KeptPositions ==
  {i \in DOMAIN existingPairs[1] :
     \A j \in DOMAIN commentsMetadata :
       commentsMetadata[j].cordMessageId # existingPairs[1][i].cordMessageId}
NthKept(n) ==
  CHOOSE i \in KeptPositions : Cardinality({j \in KeptPositions : j < i}) = n - 1

\* C22: the merged list is the pairs read whose message id is not among the
\* pairs added, in their order, followed by the pairs added in theirs.
C22_MergeKeepsOthersThenNew ==
  commentsPairsMetadata # None
    => LET merged == commentsPairsMetadata[1]
           kept == Cardinality(KeptPositions)
       IN /\ Len(merged) = kept + Len(commentsMetadata)
          /\ \A n \in 1..kept : merged[n] = existingPairs[1][NthKept(n)]
          /\ \A j \in DOMAIN commentsMetadata : merged[kept + j] = commentsMetadata[j]

\* The pairs of m1 and m2 have been merged with a new pair of m2.
C22_Witness ==
  /\ existingPairs = Some(<<Pair("m1", "c1"), Pair("m2", "c2")>>)
  /\ commentsMetadata = <<Pair("m2", "c2b")>>
  /\ commentsPairsMetadata = Some(<<Pair("m1", "c1"), Pair("m2", "c2b")>>)

\* ------------------------------------------- claims on the thread reconciler
\* The messages of a source thread that have an author id
Eligible(cordThreadId) ==
  {m \in Range(cordData.messages) : m.threadID = cordThreadId /\ m.sourceID # ""}
Earliest(cordThreadId) ==
  CHOOSE m \in Eligible(cordThreadId) :
    \A n \in Eligible(cordThreadId) : m.timestamp <= n.timestamp

\* C23: a thread created for a source thread with two or more eligible
\* messages has the earliest of them as its opening comment, and every other
\* eligible message is handed to createNewComment afterwards.
C23_OpeningCommentIsEarliest ==
  \A x \in AllTasks :
    (/\ x[3][1] = "new"
     /\ TaskAt(x).head # <<>>
     /\ Cardinality(Eligible(TaskAt(x).cordThreadId)) >= 2)
      => /\ TaskAt(x).head[1].cordMessageId = Earliest(TaskAt(x).cordThreadId).id
         /\ Range(TaskAt(x).msgs)
              = {m.id : m \in Eligible(TaskAt(x).cordThreadId)}
                  \ {Earliest(TaskAt(x).cordThreadId).id}

\* ------------------------------------------------ claims on the entry point
BothFetched(r) == fetched[r] = {"getCordData", "getLiveblocksData"}
RoomCallIssued(r) ==
  \E g \in DOMAIN groups[r] : groups[r][g].pc # "done" \/ groups[r][g].issued # <<>>

\* C24: a run has a room call issued only when its getCordData and its
\* getLiveblocksData have both returned, and has a thread or comment call in
\* flight only when, besides, no room call of the run is in flight; the
\* destination's rooms, threads and comments change in these phases only.
C24_PhasesInOrder ==
  /\ [](\A r \in Runs : RoomCallIssued(r) => BothFetched(r))
  /\ [](\A r \in Runs :
          (ThreadCalls(r) # {} \/ CommentCalls(r) # {})
            => (BothFetched(r) /\ RoomCalls(r) = {}))
  /\ [][rooms' # rooms => \E r \in Runs : BothFetched(r) /\ RoomCalls(r) # {}]_vars
  /\ [][(threads' # threads \/ comments' # comments)
          => \E r \in Runs : phase[r] = "process" /\ RoomCalls(r) = {}]_vars

\* A run with two rooms reconciled has a createThread call in flight.
C24_Witness ==
  \E r \in Runs :
    /\ Cardinality(DOMAIN groups[r]) >= 2
    /\ \A g \in DOMAIN groups[r] : groups[r][g].issued # <<>>
    /\ \E x \in ThreadCalls(r) : TaskAt(x).stage = "create"

\* The returned promise is settled, asyncForEach has gone through every
\* batch, and asyncFunction was called once for every item given.
SettledAllStarted ==
  /\ promise.state \in {"resolved", "rejected"}
  /\ Finished
  /\ \A i \in DOMAIN GivenItems :
       Cardinality({c \in started : c.item = GivenItems[i]}) = 1

\* C39 (as claimed): for every list, width and delay, the width 0 included,
\* when every operation called returns a promise that settles, the returned
\* promise settles in the end, asyncFunction having been called once for
\* every item.
C39_ExecutorSettles == <>[](thrown \/ SettledAllStarted)

\* C39 (amended): the same for every width of 1 or more.
C39_ExecutorSettlesPositiveWidth == (batchSize >= 1) => <>[](thrown \/ SettledAllStarted)

\* Seven items in three batches of width 3, with a delay: every operation
\* was called once, two have failed, and the returned promise is rejected.
C39_Witness ==
  /\ ~thrown
  /\ SettledAllStarted
  /\ Len(GivenItems) = 7
  /\ batchSize = 3
  /\ delay # 0
  /\ promise.state = "rejected"
  /\ Cardinality(started) = 7

\* C40: once throttledPromises has been called the caller's array holds the
\* items it was called with, in their order, and every call of asyncFunction
\* got that list as its third argument, with its item at the index given as
\* second argument.
C40_ItemsLeftUnchanged ==
  promise.state # "none"
    => /\ items = Flatten(batches)
       /\ \A c \in started :
            /\ c.array = Flatten(batches)
            /\ c.index + 1 \in DOMAIN c.array
            /\ c.array[c.index + 1] = c.item

\* ------------------------------------------- claims on the listing of rooms
\* C25: the first getRooms call carries no cursor; there are never more
\* calls than responses taken plus the one awaited; the call for page k + 1
\* carries the cursor that came with page k.
C25_SequentialCursorLoop ==
  /\ requests # <<>> => requests[1] = None
  /\ Len(requests) = page + (IF awaiting THEN 1 ELSE 0)
  /\ \A k \in DOMAIN requests :
       k > 1 => (requests[k] # None /\ requests[k] = listing[k - 1].nextCursor)

\* Three pages have been fetched one after the other.
C25_Witness ==
  /\ Len(listing) = 3
  /\ requests = <<None, Some(Cursor(1)), Some(Cursor(2))>>
  /\ ~awaiting
  /\ page = 3
  /\ Len(listedRooms) >= 3

RECURSIVE RoomsOfPages(_)
\* The rooms of the first n pages of the listing, in order
RoomsOfPages(n) == IF n = 0 THEN <<>> ELSE RoomsOfPages(n - 1) \o listing[n].data

\* The loop of paginatedCallback has been left
LoopLeft == requests # <<>> /\ ~awaiting

\* C38 (safety): while the loop is going on every page so far was answered,
\* with a cursor; when it is left at least one page was requested, the last
\* request got a null cursor or failed, and the rooms are those of all pages
\* requested or, when the last request failed, of all pages before it.
C38_LoopLeftAtNullOrFailure ==
  /\ awaiting
       => /\ listedRooms = RoomsOfPages(page)
          /\ \A k \in 1..page : listing[k].nextCursor # None
  /\ LoopLeft
       => /\ page >= 1
          /\ Len(requests) = page
          /\ nextCursor = None
          /\ \A k \in 1..(page - 1) : listing[k].nextCursor # None
          /\ \/ listedRooms = RoomsOfPages(page) /\ listing[page].nextCursor = None
             \/ listedRooms = RoomsOfPages(page - 1)

\* C38: the loop is left in the end, as stated by C38_LoopLeftAtNullOrFailure,
\* and then no further page is requested.
C38_ListingTerminates ==
  /\ []C38_LoopLeftAtNullOrFailure
  /\ <>[]LoopLeft

\* The loop is left after the request of the third of three pages failed,
\* with the rooms of the first two pages.
C38_Witness ==
  /\ LoopLeft
  /\ Len(listing) = 3
  /\ page = 3
  /\ listedRooms = RoomsOfPages(2)
  /\ listedRooms # RoomsOfPages(3)
  /\ Len(listedRooms) >= 2

\* C26: the response of a run that ends with success carries the counts of
\* the destination's rooms, threads and comments that the run created or
\* confirmed; for a first run on an empty destination these are the counts of
\* the destination when it answers.
C26_ReportedCountsAreActual ==
  \A r \in Runs :
    responses[r] = <<200>>
      => /\ "liveblocksStats" \in DOMAIN json200
         /\ r = 1 => json200.liveblocksStats = ended[r][1]

\* C27: when createThread is answered with a 409 and the destination holds a
\* thread of the room claimed by the source thread id, the work on the source
\* thread goes on with that thread.
C27_ConflictReusesClaimedThread ==
  [][\A x \in AllTasks :
       LET roomId == passes[x[1]][x[2]].room.id
           cordThreadId == TaskAt(x).cordThreadId
           task == passes'[x[1]][x[2]].tasks[x[3]]
       IN (/\ TaskAt(x).stage = "create"
           /\ x \in AllTasks'
           /\ task.error = Some(409)
           /\ \E t \in ClaimedBy(cordThreadId) : t[1] = roomId)
            => /\ task.stage = "comments"
               /\ task.thread # None
               /\ task.thread[1] \in ClaimedBy(cordThreadId)
               /\ task.thread[1][1] = roomId]_vars

\* C28: when the getComment call that checks a recorded comment fails, the
\* work on that message ends with no pair and no createComment call follows.
C28_FailedCheckAbandonsComment ==
  [][\A x \in AllTasks : \A m \in DOMAIN TaskAt(x).st :
       LET task == passes'[x[1]][x[2]].tasks[x[3]]
       IN (/\ TaskAt(x).st[m] = "lookup"
           /\ x \in AllTasks'
           /\ task.st[m] # "lookup"
           /\ failures' = failures + 1)
            => /\ task.st[m] = "settled"
               /\ task.res[m] = None]_vars

\* C29: for a source thread without eligible messages no createThread,
\* createComment or editThreadMetadata call is issued: the destination never
\* holds a thread claimed by it, and createNewThreadWithComments returns for
\* it at once, without a destination thread.
C29_NoMessagesNoThread ==
  \A t \in Range(cordData.threads) :
    Eligible(t.id) = {}
      => /\ ClaimedBy(t.id) = {}
         /\ \A x \in AllTasks :
              TaskAt(x).cordThreadId = t.id
                => /\ TaskAt(x).stage = "done"
                   /\ TaskAt(x).thread = None
                   /\ TaskAt(x).head = <<>>
                   /\ TaskAt(x).calls = {}

\* createNewThreads has selected a thread without eligible messages together
\* with a thread that has some, and the thread for the latter is created.
C29_Witness ==
  \E x \in AllTasks :
    /\ Eligible(TaskAt(x).cordThreadId) = {}
    /\ \E y \in AllTasks :
         /\ y[1] = x[1] /\ y[2] = x[2]
         /\ TaskAt(y).thread # None

\* C30: when toCreateCommentData gives no comment for the message a new
\* thread is to open with, no createThread call and no createComment call
\* for the other messages of the thread is issued: the destination holds no
\* thread claimed by the source thread and the work on it ends without one.
C30_NoOpeningCommentNoThread ==
  \A x \in AllTasks :
    (/\ x[3][1] = "new"
     /\ TaskAt(x).first # None
     /\ ~Resolvable(TaskAt(x).first[1]))
      => /\ TaskAt(x).stage = "done"
         /\ TaskAt(x).thread = None
         /\ TaskAt(x).head = <<>>
         /\ TaskAt(x).calls = {}
         /\ ClaimedBy(TaskAt(x).cordThreadId) = {}

\* A thread whose first message has no resolvable author and whose other
\* message has one is abandoned while another thread of the room is created.
C30_Witness ==
  \E x \in AllTasks :
    /\ x[3][1] = "new"
    /\ TaskAt(x).first # None
    /\ ~Resolvable(TaskAt(x).first[1])
    /\ \E m \in Range(TaskAt(x).msgs) : Resolvable(m)
    /\ \E y \in AllTasks :
         /\ y[1] = x[1] /\ y[2] = x[2]
         /\ TaskAt(y).thread # None

\* ------------------------------------------- claims on the comment creator
\* The author of a message resolves: a user with an external id has the
\* source id of the message, or is the user of an email notification that
\* has it as its id or user id.
AuthorResolves(messageId) ==
  \E u \in Range(cordData.users) :
    /\ u.externalID # ""
    /\ \/ u.id = Msg(messageId).sourceID
       \/ \E n \in Range(cordData.emailNotifications) :
            /\ Msg(messageId).sourceID \in {n.id, n.userID}
            /\ u.id = n.userID

\* C31: for a message whose author does not resolve createNewComment ends
\* with no pair and no createComment call, so no thread of the destination
\* holds a comment for it; the other messages of the thread are processed: in
\* a behavior without a failed call each of them has its pair when the
\* comments of the thread have settled.
C31_UnresolvedAuthorNoComment ==
  /\ \A m \in MessageIds :
       ~AuthorResolves(m) => \A t \in DOMAIN threads : CommentsFor(t, m) = {}
  /\ \A x \in AllTasks : \A m \in DOMAIN TaskAt(x).st :
       /\ ~AuthorResolves(m)
            => /\ m \notin TaskAt(x).calls
               /\ TaskAt(x).res[m] = None
               /\ TaskAt(x).st[m] = "settled"
       /\ (/\ AuthorResolves(m)
           /\ failures = 0
           /\ \A n \in DOMAIN TaskAt(x).st : TaskAt(x).st[n] = "settled")
            => TaskAt(x).res[m] # None

\* The comments of a thread have settled: a message without a resolvable
\* author has no pair and another message of the thread has one.
C31_Witness ==
  \E x \in AllTasks :
    /\ TaskAt(x).stage = "comments"
    /\ \A n \in DOMAIN TaskAt(x).st : TaskAt(x).st[n] = "settled"
    /\ \E m \in DOMAIN TaskAt(x).st : ~AuthorResolves(m) /\ TaskAt(x).res[m] = None
    /\ \E m \in DOMAIN TaskAt(x).st : AuthorResolves(m) /\ TaskAt(x).res[m] # None

\* ------------------------------------------------------ claims on reactions
\* A user with an external id has this id, or is the user of an email
\* notification that has it as its id or user id.
UserResolves(cordUserId) ==
  \E u \in Range(cordData.users) :
    /\ u.externalID # ""
    /\ \/ u.id = cordUserId
       \/ \E n \in Range(cordData.emailNotifications) :
            cordUserId \in {n.id, n.userID} /\ u.id = n.userID

\* C32: once liveblocks.createComment has succeeded the comment stays, and
\* createNewComment returns the pair of the message and the comment, whether
\* findAll or any addCommentReaction call fails or not.
C32_PairReturnedWhateverReactionsDo ==
  /\ (comment # None /\ at = "returned") => returnValue = Some(CreatedPair)
  /\ (at \in {"findAll", "addCommentReaction"} \/ inFlight # {}) => comment = Some("c1")

\* createNewComment has returned after two addCommentReaction calls were
\* issued, of which one at least has failed.
C32_Witness ==
  /\ at = "returned"
  /\ returnValue = Some(CreatedPair)
  /\ Len(reactionCalls) = 2
  /\ inFlight = {}
  /\ Cardinality(added) < 2

\* C33: addCommentReaction is called only for reactions of the message whose
\* user resolves, once for each at most; when no reaction of the message has
\* such a user no call is issued and nothing is added to the comment.
C33_CallsOnlyForResolvedAuthors ==
  /\ \A i \in DOMAIN reactionCalls :
       /\ reactionCalls[i] \in Range(messageReactions)
       /\ UserResolves(reactionCalls[i].userID)
       /\ \A j \in DOMAIN reactionCalls : reactionCalls[i].id = reactionCalls[j].id => i = j
  /\ (\A i \in DOMAIN messageReactions : ~UserResolves(messageReactions[i].userID))
       => reactionCalls = <<>> /\ inFlight = {} /\ added = {}

\* findAll gave reactions, with a user id that does not resolve among them
\* and none that does: createNewComment has returned the pair with no call.
C33_Witness ==
  /\ at = "returned"
  /\ reactions # <<>>
  /\ \E i \in DOMAIN reactions : reactions[i].userID = "u9"
  /\ \A i \in DOMAIN reactions : ~UserResolves(reactions[i].userID)
  /\ reactionCalls = <<>>
  /\ returnValue = Some(CreatedPair)

\* --------------------------------------------- claims on the room reconciler
\* A room id whose group has no organization with an external id: none of
\* the source threads at its location has an orgID, or the organization of
\* the first one that has is not in the source or has no external id.
Unowned(roomId) ==
  LET ts == SelectSeq(cordData.threads,
                      LAMBDA t : getRoomId(t.location) = roomId /\ t.orgID # "")
  IN \/ ts = <<>>
     \/ ~\E o \in Range(cordData.orgs) : o.id = ts[1].orgID /\ o.externalID # ""

\* C34: for a group without an organization that has an external id no
\* updateRoom or createRoom call is issued, the destination never holds its
\* room, and it is not among the rooms createOrUpdateRooms returns; the other
\* groups are still reconciled: in a behavior without a failed call each has
\* its room in the result when it is done.
C34_UnownedGroupSkipped ==
  \A r \in Runs : \A g \in DOMAIN groups[r] :
    /\ Unowned(g)
         => /\ groups[r][g].issued = <<>>
            /\ groups[r][g].pc = "done"
            /\ groups[r][g].created = None /\ groups[r][g].updated = None
            /\ g \notin DOMAIN rooms
            /\ \A k \in DOMAIN passes[r] : k[2] # g
    /\ (~Unowned(g) /\ failures = 0 /\ groups[r][g].pc = "done")
         => groups[r][g].created # None \/ groups[r][g].updated # None

\* createOrUpdateRooms has returned the room of one group while another group
\* of the run has no organization with an external id.
C34_Witness ==
  \E r \in Runs : \E g, h \in DOMAIN groups[r] :
    /\ phase[r] = "process"
    /\ Unowned(g)
    /\ ~Unowned(h)
    /\ groups[r][h].created # None
    /\ \E k \in DOMAIN passes[r] : k[2] = h

\* C35: the rooms createOrUpdateRooms returns have different ids, so a run
\* has at most one processRoom for a room.
C35_OneResultEntryPerRoom ==
  \A r \in Runs :
    /\ \A j, k \in ResultRooms(r) : j[2] = k[2] => j = k
    /\ \A j, k \in DOMAIN passes[r] : j[2] = k[2] => j = k

\* ------------------------------------------------- claims on processRoom
\* C36: when the getThreads call of toRoomWithThreads fails, the room handed
\* to processRoom is not one in which createNewThreads calls createThread
\* for a source thread that a destination thread of the room claims.
C36_FailedListingCreatesNoClaimed ==
  [][\A r \in Runs : \A g \in DOMAIN groups[r] :
       (/\ groups[r][g].pc \in {"updateThreads", "createThreads"}
        /\ groups'[r][g] # groups[r][g]
        /\ failures' = failures + 1)
         => LET room == IF groups[r][g].pc = "updateThreads"
                        THEN groups'[r][g].updated[1] ELSE groups'[r][g].created[1]
            IN \A t \in newThreads(room) :
                 NewThreadTask(t).stage = "create"
                   => ~\E u \in ThreadsOfRoom(g) : threads[u].metadata.cordThreadId = t]_vars

\* The tasks of the pass of x: its createNewThreadWithComments calls and the
\* iterations of its fixExistingThreadsMissingComments.
NewOf(x) == {y \in AllTasks : y[1] = x[1] /\ y[2] = x[2] /\ y[3][1] = "new"}
FixOf(x) == {y \in AllTasks : y[1] = x[1] /\ y[2] = x[2] /\ y[3][1] = "fix"}

\* C37: in a pass over a room an iteration over an existing thread starts
\* only when every createNewThreadWithComments of the pass has returned, the
\* iterations run one at a time, and none is for a thread created in the
\* pass: for a message of such a thread the pass issues no createComment call
\* beyond the one of createNewThreadWithComments.
C37_FixAfterNewOneAtATime ==
  \A x \in AllTasks :
    x[3][1] = "fix"
      => /\ \A y \in NewOf(x) : TaskAt(y).stage = "done"
         /\ \A y \in FixOf(x) : (TaskAt(x).stage # "done" /\ TaskAt(y).stage # "done") => y = x
         /\ TaskAt(x).thread[1] \in DOMAIN passes[x[1]][x[2]].room.threads
         /\ \A y \in NewOf(x) :
              TaskAt(y).head # <<>>
                => /\ TaskAt(y).thread # TaskAt(x).thread
                   /\ TaskAt(y).thread[1] \notin DOMAIN passes[x[1]][x[2]].room.threads

\* A pass has created the thread of one source thread, with its comment, and
\* is at the comments of a thread the room had before.
C37_Witness ==
  \E x \in AllTasks :
    /\ x[3][1] = "fix"
    /\ TaskAt(x).stage = "comments"
    /\ \E y \in NewOf(x) : TaskAt(y).head # <<>> /\ TaskAt(y).thread # None

====
